---- MODULE Spec2Model ----
(***************************************************************************)
(* State-machine model of the cinematic-ai gateway: the provider request   *)
(* pipelines (src/src/apiframe.py, src/src/kling.py,                       *)
(* src/src/pollinations.py), the media relay, the object store adapter and *)
(* the per-source gallery caches (src/src/shared.py).                      *)
(*                                                                         *)
(* A handler is a coroutine on a single-threaded event loop: each action   *)
(* below is the code that runs between two suspension points (await).      *)
(* Store puts and lists run in the thread pool b2_executor and are actions *)
(* of their own.                                                           *)
(***************************************************************************)
EXTENDS Integers, Sequences, FiniteSets, TLC

(***************************************************************************)
(* Bounds of the model (not program constants).                            *)
(***************************************************************************)
\* number of concurrently running handlers
NumProcs == 2
\* handler invocations started in one behaviour of Spec
MaxOps == 2
\* handler invocations started in one behaviour of SpecSeq or of SpecRace
MaxSeqOps == 3
\* distinct values of uuid4().hex[:6] the model draws from
NumRand == 2
\* time.time() when the process starts (the epoch clock is far beyond the
\* initial cache timestamp 0), and how far the clock advances
StartNow == 2000
MaxElapsed == 300
\* page size of list_objects_v2 for the image and the video listings; they
\* stand for MaxKeys=500 (shared.py:225) and MaxKeys=200 (shared.py:260),
\* scaled down to the size of the model's store
ImageMaxKeys == 3
VideoMaxKeys == 2
\* how many seconds the store's clock, which stamps LastModified, may be
\* ahead of the clock of the process (time.time())
MaxSkew == 1

(***************************************************************************)
(* Program constants.                                                      *)
(***************************************************************************)
GALLERY_CACHE_TTL == 300
APIFRAME_MAX_ATTEMPTS == 20
APIFRAME_POLL_SLEEP == 3
KLING_MAX_ATTEMPTS == 120
KLING_POLL_SLEEP == 5
IMAGE_DOWNLOAD_ATTEMPTS == 4
IMAGE_BACKOFF_BASE == 3
VIDEO_DOWNLOAD_ATTEMPTS == 3
VIDEO_BACKOFF_BASE == 5

Procs == 1..NumProcs

(***************************************************************************)
(* Values.  A Python string or None is a record tagged by "str"; a JSON    *)
(* field of a provider response is a record tagged by "t".                 *)
(***************************************************************************)
EMPTY == [str |-> "empty"]
NONE == [str |-> "None"]
EphUrl(tag) == [str |-> "ephemeral", id |-> tag]
\* f"{base_url}/{key}"
B2Url(key) == [str |-> "durable", base |-> "B2_URL_CLOUD", key |-> key]
\* Python truthiness of a string-or-None value
Truthy(s) == s /= EMPTY /\ s /= NONE

Absent == [t |-> "absent"]
JStr(s) == [t |-> "str", v |-> s]
JList(l) == [t |-> "list", v |-> l]
\* Python truthiness of a JSON field read with .get / "in"
JTruthy(j) ==
    \/ j.t = "str" /\ Truthy(j.v)
    \/ j.t = "list" /\ Len(j.v) > 0

Key_NoSuffix(folder, ts, rnd, ext) ==
    [folder |-> folder, ts |-> ts, rnd |-> 0, ext |-> ext]

\* f"{folder}/{int(time.time())}_{uuid.uuid4().hex[:6]}.{ext}"
Key(folder, ts, rnd, ext) == [folder |-> folder, ts |-> ts, rnd |-> rnd, ext |-> ext]
NoKey == [folder |-> "none"]

Sources == {"omnigen", "apiframe", "video", "kling"}

Endpoints ==
    {"apiframe", "apiframe_nano", "kling_video", "kling_multi",
     "pollinations", "pollinations_img2img", "pollinations_video"}

\* the cache a generation endpoint prepends to
CacheOf(ep) ==
    CASE ep \in {"apiframe", "apiframe_nano"} -> "apiframe"
      [] ep \in {"pollinations", "pollinations_img2img"} -> "omnigen"
      [] ep = "pollinations_video" -> "video"
      [] ep \in {"kling_video", "kling_multi"} -> "kling"

FolderOf_Video(ep) == "video"

\* the folder a generation endpoint (or a direct relay call) stores under
FolderOf(ep) ==
    CASE ep \in {"apiframe", "apiframe_nano"} -> "apiFrame"
      [] ep \in {"pollinations", "pollinations_img2img"} -> "omniGen"
      [] ep \in {"pollinations_video", "download_and_upload_video_to_b2"} -> "video"
      [] ep \in {"kling_video", "kling_multi"} -> "kling_video"

\* which relay operation an endpoint uses
RelayOf(ep) ==
    CASE ep \in {"apiframe", "apiframe_nano", "pollinations", "pollinations_img2img"}
            -> "download_and_upload_to_b2"
      [] ep = "download_and_upload_video_to_b2" -> "download_and_upload_video_to_b2"
      [] OTHER -> "upload_video_to_b2"

VARIABLES
    now,            \* time.time(), whole seconds
    s3_client,      \* TRUE when the B2 client was built (credentials present)
    store,          \* the bucket: a set of [key, lm] with one object per key
    cache,          \* cache_omnigen, cache_apiframe, cache_video, cache_kling
    proc,           \* the running handlers, each with its position and locals
    detached,       \* keys of puts still running after wait_for gave up
    ops,            \* handler invocations started so far
    filled          \* history: the listing each cache was last filled from

vars == <<now, s3_client, store, cache, proc, detached, ops, filled>>

NoResp == [status |-> 0]

IdleProc ==
    [kind |-> "idle", ep |-> "none", pc |-> "idle",
     submits |-> 0, sleeps |-> 0, slept |-> 0, polls |-> 0, attempt |-> 0,
     url |-> NONE, downloads |-> 0, backoff |-> 0, data |-> "none",
     key |-> NoKey, put |-> "none", puts |-> 0, b2 |-> EMPTY, raised |-> FALSE,
     writes |-> 0, lists |-> 0, listed |-> FALSE, files |-> <<>>, snap |-> {},
     out |-> "none", detail |-> "none", resp |-> NoResp, result |-> <<>>,
     \* history of the request, read by the properties only
     sub |-> "none", task |-> FALSE, failedNow |-> "none", sawFailed |-> FALSE,
     relayFail |-> "none", relayed |-> FALSE,
     \* the second and the hex suffix the filename was built from
     drawn |-> <<>>,
     \* what the last status query answered
     lastPoll |-> "none",
     \* the result fields of the APIFrame answer the URL was just taken
     \* from ("state", apiframe.py:131), not read again once the relay starts
     shapes |-> <<>>,
     \* the request body of a Kling single-video request and the payload
     \* built from it (kling.py:119-158)
     request |-> <<>>, payload |-> <<>>]

\* objects earlier runs of the process left in the bucket
SeedStore ==
    {[key |-> Key("video", 1000, 0, "mp4"), lm |-> 1001],
     [key |-> Key("video", 1100, 0, "mp4"), lm |-> 1101],
     [key |-> Key("apiFrame", 1000, 0, "png"), lm |-> 1001],
     [key |-> Key("apiFrame", 1100, 0, "png"), lm |-> 1101],
     [key |-> Key("apiFrame", 1200, 0, "png"), lm |-> 1201]}

\* shared.py:52-55 and the module-level client initialisation
Init ==
    /\ now = StartNow
    /\ s3_client \in BOOLEAN
    /\ store \in {{}, SeedStore}
    /\ filled = [s \in Sources |-> [ok |-> FALSE, snap |-> {}]]
    /\ cache = [s \in Sources |-> [data |-> <<>>, timestamp |-> 0]]
    /\ proc = [p \in Procs |-> IdleProc]
    /\ detached = {}
    /\ ops = 0


(***************************************************************************)
(* Provider responses: what one network call of a handler can return.      *)
(***************************************************************************)
Reasons == {"quota", "nsfw"}

TaskId == [str |-> "task"]

\* the answers to POST submit_url of APIFrame (apiframe.py:92-96)
ApiframeSubmitResponses ==
    {[kind |-> k] : k \in {"neterr", "http_error", "malformed"}}
    \cup {[kind |-> "json", task_id |-> t, image_urls |-> u] :
            t \in {Absent, JStr(TaskId)},
            u \in {Absent, JList(<<>>), JList(<<EMPTY>>),
                   JList(<<EphUrl("image_urls[0]")>>)}}

\* the answers to POST https://api.apiframe.pro/fetch (apiframe.py:122-133)
ApiframePollResponses ==
    {[kind |-> k] : k \in {"neterr", "non200", "empty", "malformed"}}
    \cup {[kind |-> "json", status |-> s, image_urls |-> a, image_url |-> b,
           output |-> c, error |-> e] :
            s \in {"pending", "finished", "completed", "succeeded", "failed"},
            a \in {Absent, JList(<<>>), JList(<<EMPTY>>),
                   JList(<<EphUrl("image_urls[0]")>>)},
            b \in {Absent, JStr(EMPTY), JStr(EphUrl("image_url"))},
            c \in {Absent, JStr(EphUrl("output")), JList(<<EphUrl("output[0]")>>)},
            e \in Reasons}

\* the answers to POST /v1/videos/... of Kling (kling.py:163-174, 299-310)
KlingSubmitResponses ==
    {[kind |-> k] : k \in {"neterr", "non200", "malformed"}}
    \cup {[kind |-> "json", code |-> c, task_id |-> t] :
            c \in {0, 1}, t \in {Absent, JStr(TaskId)}}

\* the answers to GET /v1/videos/.../{task_id} (kling.py:187-203, 323-338)
KlingPollResponses ==
    {[kind |-> k] : k \in {"neterr", "non200", "malformed"}}
    \cup {[kind |-> "json", task_status |-> s, videos |-> v, task_status_msg |-> m] :
            s \in {"submitted", "processing", "succeed", "failed"},
            v \in {<<>>, <<[url |-> NONE]>>,
                   <<[url |-> EphUrl("task_result.videos[0].url")]>>},
            m \in Reasons}

\* the answers to a media GET (shared.py:122, 174; kling.py:214, 347;
\* pollinations.py:353)
DownloadResponses == {"ok", "empty", "r429", "http_error", "timeout", "neterr"}

(***************************************************************************)
(* Provider poller: pure parts.                                            *)
(***************************************************************************)
ApiframeDone == {"finished", "completed", "succeeded"}

ApiframeExtract_OutputFirst(state) ==
    IF JTruthy(state.output)
    THEN (IF state.output.t = "list" THEN state.output.v[1] ELSE state.output.v)
    ELSE IF state.image_urls.t = "list" /\ Len(state.image_urls.v) > 0
    THEN state.image_urls.v[1]
    ELSE IF JTruthy(state.image_url)
    THEN state.image_url.v
    ELSE NONE

\* apiframe.py:137-143: the result URL of a done-status state, None if none
ApiframeExtract(state) ==
    IF state.image_urls.t = "list" /\ Len(state.image_urls.v) > 0
    THEN state.image_urls.v[1]
    ELSE IF JTruthy(state.image_url)
    THEN state.image_url.v
    ELSE IF JTruthy(state.output)
    THEN (IF state.output.t = "list" THEN state.output.v[1] ELSE state.output.v)
    ELSE NONE

\* apiframe.py:121-157: one iteration of the fetch loop after the sleep.
\* "exc" is the exception the try block raises, "caught" whether the
\* except clause of the loop (apiframe.py:155-157) catches it.
ApiframePollStep(r) ==
    LET exc == IF r.kind \in {"neterr", "malformed"} THEN "Exception"
               ELSE IF r.kind = "json" /\ r.status = "failed" THEN "HTTPException"
               ELSE "none"
        url == IF r.kind = "json" /\ r.status \in ApiframeDone
               THEN ApiframeExtract(r) ELSE NONE
    IN  IF exc /= "none"
        THEN [act |-> "continue", url |-> NONE, exc |-> exc, caught |-> TRUE]
        ELSE IF Truthy(url)
        THEN [act |-> "break", url |-> url, exc |-> "none", caught |-> FALSE]
        ELSE [act |-> "continue", url |-> NONE, exc |-> "none", caught |-> FALSE]

\* kling.py:187-206 (single video) and kling.py:323-340 (multi image): one
\* iteration of the poll loop after the sleep.  Nothing in the loop catches.
KlingPollStep(ep, r) ==
    IF r.kind \in {"neterr", "malformed"}
    THEN [act |-> "raise", url |-> NONE, out |-> "internal_error",
          detail |-> "exception", status |-> 500]
    ELSE IF r.kind = "non200"
    THEN [act |-> "continue", url |-> NONE, out |-> "none", detail |-> "none", status |-> 0]
    ELSE IF r.task_status = "succeed" /\ Len(r.videos) > 0
    THEN (IF ep = "kling_multi" /\ ~Truthy(r.videos[1].url)
          \* video_url[:60] on None (kling.py:334)
          THEN [act |-> "raise", url |-> NONE, out |-> "internal_error",
                detail |-> "exception", status |-> 500]
          ELSE [act |-> "break", url |-> r.videos[1].url, out |-> "none",
                detail |-> "none", status |-> 0])
    ELSE IF r.task_status = "failed"
    THEN [act |-> "raise", url |-> NONE, out |-> "generation_failed",
          detail |-> r.task_status_msg,
          status |-> IF ep = "kling_multi" THEN 400 ELSE 500]
    ELSE [act |-> "continue", url |-> NONE, out |-> "none", detail |-> "none", status |-> 0]

MaxAttempts(ep) ==
    IF ep \in {"kling_video", "kling_multi"} THEN KLING_MAX_ATTEMPTS
    ELSE APIFRAME_MAX_ATTEMPTS

PollSleep(ep) ==
    IF ep \in {"kling_video", "kling_multi"} THEN KLING_POLL_SLEEP
    ELSE APIFRAME_POLL_SLEEP

\* the status of the timed-out error (apiframe.py:160, kling.py:209, 342)
TimeoutStatus(ep) ==
    CASE ep = "kling_video" -> 500
      [] ep = "kling_multi" -> 408
      [] OTHER -> 504


(***************************************************************************)
(* Media relay: pure parts.                                                *)
(***************************************************************************)
DownloadAttempts_Three(relay) == 3

\* range(4) (shared.py:173) and range(3) (shared.py:121)
DownloadAttempts(relay) ==
    IF relay = "download_and_upload_to_b2" THEN IMAGE_DOWNLOAD_ATTEMPTS
    ELSE VIDEO_DOWNLOAD_ATTEMPTS

BackoffBase(relay) ==
    IF relay = "download_and_upload_to_b2" THEN IMAGE_BACKOFF_BASE
    ELSE VIDEO_BACKOFF_BASE

RetryLimit_Unlimited(relay) == 4

\* "if attempt < 3" (shared.py:177) and "if attempt < 2" (shared.py:125)
RetryLimit(relay) ==
    IF relay = "download_and_upload_to_b2" THEN 3 ELSE 2

\* shared.py:174-211 and 122-158: the try block of download_and_upload_to_b2
\* and of download_and_upload_video_to_b2 from one GET response on; attempt
\* is the loop index.  act: retry (sleep wait, next GET) | empty (return "")
\* | put (hand the bytes to the thread pool) | raise (an exception leaves
\* the try block).
RelayTry(relay, attempt, r, s3) ==
    CASE r \in {"neterr", "timeout"} -> [act |-> "raise", wait |-> 0, fail |-> "dl_" \o r]
      [] r = "r429" ->
            IF attempt < RetryLimit(relay)
            THEN (IF attempt + 1 < DownloadAttempts(relay)
                  THEN [act |-> "retry", wait |-> BackoffBase(relay) * (attempt + 1),
                        fail |-> "none"]
                  ELSE [act |-> "empty", wait |-> BackoffBase(relay) * (attempt + 1),
                        fail |-> "dl_429_exhausted"])
            ELSE [act |-> "empty", wait |-> 0, fail |-> "dl_429_exhausted"]
      [] r = "http_error" -> [act |-> "raise", wait |-> 0, fail |-> "dl_non200"]
      [] r = "empty" -> [act |-> "empty", wait |-> 0, fail |-> "dl_empty"]
      [] r = "ok" ->
            IF s3 THEN [act |-> "put", wait |-> 0, fail |-> "none"]
            ELSE [act |-> "empty", wait |-> 0, fail |-> "no_s3_client"]

RelayExcept_Reraise(o) == o

\* "except Exception as e: ... return ''" (shared.py:160-162, 213-215)
RelayExcept(o) ==
    IF o.act = "raise" THEN [o EXCEPT !.act = "empty"] ELSE o

download_and_upload(relay, attempt, r, s3) ==
    RelayExcept(RelayTry(relay, attempt, r, s3))

\* shared.py:82-110: upload_video_to_b2 up to the hand-over to the thread pool
upload_video_to_b2(data, s3) ==
    IF data = "empty" THEN [act |-> "empty", wait |-> 0, fail |-> "dl_empty"]
    ELSE IF ~s3 THEN [act |-> "empty", wait |-> 0, fail |-> "no_s3_client"]
    ELSE [act |-> "put", wait |-> 0, fail |-> "none"]

Ext_Mp4(relay) == "mp4"

\* the extension of the filename a relay operation builds (shared.py:91,
\* 116, 168)
Ext(relay) == IF relay = "download_and_upload_to_b2" THEN "png" ELSE "mp4"

\* s3_client.put_object: one object per key, a second put overwrites
StorePut(st, key, t) ==
    {o \in st : o.key /= key} \cup {[key |-> key, lm |-> t]}

(***************************************************************************)
(* Gallery cache: the write.                                               *)
(***************************************************************************)
CacheInsert_Append(c, entry) == [c EXCEPT !.data = @ \o <<entry>>]

CacheInsert_AfterHead(c, entry) ==
    [c EXCEPT !.data = IF @ = <<>> THEN <<entry>>
                       ELSE <<Head(@)>> \o <<entry>> \o Tail(@)]

CacheInsert_ReplaceHead(c, entry) ==
    [c EXCEPT !.data = IF @ = <<>> THEN <<entry>> ELSE <<entry>> \o Tail(@)]

\* cache_x["data"].insert(0, entry)
CacheInsert(c, entry) == [c EXCEPT !.data = <<entry>> \o @]

\* The code of a generation handler that follows the relay's return: the
\* entry it prepends, and its response.  exc: an exception came out of the
\* relay call.
HandlerAfterRelay(ep, url, b2, exc, t) ==
    LET final == IF Truthy(b2) THEN b2 ELSE url
        ok(resp, write, entry) ==
            [out |-> "success", status |-> 200, resp |-> resp, write |-> write,
             entry |-> entry]
        err == [out |-> "internal_error", status |-> 500, resp |-> NoResp,
                write |-> FALSE, entry |-> NoResp]
    IN
    CASE ep \in {"apiframe", "apiframe_nano"} ->
            \* apiframe.py:163-182
            IF exc
            THEN ok([status |-> 200, url |-> url, b2_url |-> url], FALSE, NoResp)
            ELSE ok([status |-> 200, url |-> url, b2_url |-> final], Truthy(b2),
                    [url |-> b2, b2_url |-> b2, key |-> b2, folder |-> "apiFrame",
                     time |-> t, source |-> "apiFrame"])
      [] ep \in {"pollinations", "pollinations_img2img"} ->
            \* pollinations.py:213-233, 270-290
            IF exc THEN err
            ELSE ok([status |-> 200, url |-> url, b2_url |-> final], Truthy(b2),
                    [url |-> b2, b2_url |-> b2, key |-> b2, folder |-> "omniGen",
                     time |-> t, source |-> "pollinations"])
      [] ep = "pollinations_video" ->
            \* pollinations.py:371-420
            IF exc THEN err
            ELSE ok([status |-> 200, url |-> url, b2_url |-> final], Truthy(b2),
                    [url |-> b2, b2_url |-> b2, key |-> b2, folder |-> "video",
                     time |-> t, type |-> "video"])
      [] ep \in {"kling_video", "kling_multi"} ->
            \* kling.py:219-254, 351-381
            IF exc THEN err
            ELSE IF Truthy(b2)
            THEN ok([status |-> 200, url |-> b2, b2_url |-> b2], TRUE,
                    [url |-> b2, b2_url |-> b2, time |-> t,
                     source |-> IF ep = "kling_video" THEN "kling" ELSE "kling-multi"])
            ELSE ok([status |-> 200, url |-> url, b2_url |-> url], FALSE, NoResp)
      [] OTHER ->
            \* a direct call of a relay operation: no handler follows
            [out |-> IF exc THEN "raised" ELSE "returned", status |-> 0,
             resp |-> NoResp, write |-> FALSE, entry |-> NoResp]


(***************************************************************************)
(* Generation handlers.                                                    *)
(***************************************************************************)
\* handlers are interchangeable: a new one takes the lowest free slot
FreeSlot(p) ==
    /\ proc[p].kind = "idle"
    /\ \A q \in Procs : q < p => proc[q].kind /= "idle"

\* the request ends with an HTTP error
Fail(q, out, detail, status) ==
    [q EXCEPT !.pc = "done", !.out = out, !.detail = detail,
              !.resp = [status |-> status]]

\* where a handler goes once it holds a result URL
AfterUrl(ep) ==
    IF RelayOf(ep) = "upload_video_to_b2" THEN "download" ELSE "relay_begin"

AfterRelay_WritesFallback(p, q, b2, exc) ==
    LET h == HandlerAfterRelay(q.ep, q.url, b2, exc, now)
        write == h.out = "success"
        entry == IF h.write THEN h.entry
                 ELSE [url |-> q.url, b2_url |-> q.url, time |-> now]
        q2 == [q EXCEPT !.b2 = b2, !.raised = exc, !.relayed = TRUE,
                        !.pc = "done", !.out = h.out,
                        !.resp = IF h.out = "success" THEN h.resp
                                 ELSE [status |-> h.status],
                        !.writes = @ + (IF write THEN 1 ELSE 0)]
    IN  /\ proc' = [proc EXCEPT ![p] = q2]
        /\ cache' = IF write
                    THEN [cache EXCEPT ![CacheOf(q.ep)] = CacheInsert(@, entry)]
                    ELSE cache

\* the relay call has returned b2 (or let an exception out): the rest of the
\* handler runs without suspension up to its response
AfterRelay(p, q, b2, exc) ==
    LET h == HandlerAfterRelay(q.ep, q.url, b2, exc, now)
        q2 == [q EXCEPT !.b2 = b2, !.raised = exc, !.relayed = TRUE,
                        !.pc = "done", !.out = h.out,
                        !.resp = IF h.out = "success" THEN h.resp
                                 ELSE [status |-> h.status],
                        !.writes = @ + (IF h.write THEN 1 ELSE 0)]
    IN  /\ proc' = [proc EXCEPT ![p] = q2]
        /\ cache' = IF h.write
                    THEN [cache EXCEPT ![CacheOf(q.ep)] = CacheInsert(@, h.entry)]
                    ELSE cache

\* a generation request arrives (apiframe.py:49-88, kling.py:93-158,
\* kling.py:258-294, pollinations.py:184-211, 237-268, 295-350)
StartGen(p, ep, configured) ==
    /\ FreeSlot(p)
    /\ ops' = ops + 1
    /\ LET q == [IdleProc EXCEPT !.kind = "gen", !.ep = ep]
       IN proc' = [proc EXCEPT ![p] =
            CASE ep \in {"apiframe", "apiframe_nano"} ->
                    IF configured THEN [q EXCEPT !.pc = "submit"]
                    ELSE Fail(q, "not_configured", "none", 500)
              [] ep = "kling_video" ->
                    IF configured THEN [q EXCEPT !.pc = "submit"]
                    ELSE Fail(q, "not_configured", "none", 400)
              [] ep = "kling_multi" ->
                    IF configured THEN [q EXCEPT !.pc = "submit"]
                    ELSE Fail(q, "internal_error", "exception", 500)
              [] ep \in {"pollinations", "pollinations_img2img"} ->
                    [q EXCEPT !.pc = "relay_begin", !.url = EphUrl("image_url")]
              [] ep = "pollinations_video" ->
                    [q EXCEPT !.pc = "submit", !.url = EphUrl("video_url")]]
    /\ UNCHANGED <<now, s3_client, store, cache, detached, filled>>

SubmitFail(sub, out, detail, status) ==
    [act |-> "fail", sub |-> sub, out |-> out, detail |-> detail,
     status |-> status, url |-> NONE]

ApiframeSubmitStep_NoSync(ep, r) ==
    IF r.kind /= "json"
    THEN SubmitFail(r.kind, "submit_error", "Submit failed", 500)
    ELSE IF JTruthy(r.task_id)
    THEN [act |-> "poll", sub |-> "accepted", out |-> "none",
          detail |-> "none", status |-> 0, url |-> NONE]
    ELSE SubmitFail("accepted", "timed_out", "Generation timed out", 504)

\* apiframe.py:90-116 and 159-160: what the handler does with the answer
\* to its submit call
ApiframeSubmitStep(ep, r) ==
    IF r.kind /= "json"
    THEN SubmitFail(r.kind, "submit_error", "Submit failed", 500)
    ELSE IF ep = "apiframe_nano"
    THEN (IF JTruthy(r.image_urls)
          THEN (IF Truthy(r.image_urls.v[1])
                THEN [act |-> "url", sub |-> "accepted", out |-> "none",
                      detail |-> "none", status |-> 0, url |-> r.image_urls.v[1]]
                ELSE SubmitFail("accepted", "timed_out", "Generation timed out", 504))
          ELSE SubmitFail("rejected", "submit_error", "Submit failed", 500))
    ELSE (IF JTruthy(r.task_id)
          THEN [act |-> "poll", sub |-> "accepted", out |-> "none",
                detail |-> "none", status |-> 0, url |-> NONE]
          ELSE SubmitFail("accepted", "timed_out", "Generation timed out", 504))

KlingSubmitStep_NoCodeCheck(ep, r) ==
    CASE r.kind \in {"neterr", "malformed"} ->
            SubmitFail(r.kind, "internal_error", "exception", 500)
      [] r.kind = "non200" ->
            SubmitFail("http_error", "submit_error", "Kling API error", 400)
      [] r.kind = "json" ->
            IF ep = "kling_video" /\ r.task_id = Absent
            THEN SubmitFail("accepted", "internal_error", "exception", 500)
            ELSE [act |-> "poll",
                  sub |-> IF r.code /= 0 THEN "code_error" ELSE "accepted",
                  out |-> "none", detail |-> "none", status |-> 0, url |-> NONE]

\* kling.py:162-175 and kling.py:298-311: what the handler does with the
\* answer to its submit call
KlingSubmitStep(ep, r) ==
    CASE r.kind \in {"neterr", "malformed"} ->
            SubmitFail(r.kind, "internal_error", "exception", 500)
      [] r.kind = "non200" ->
            SubmitFail("http_error", "submit_error", "Kling API error", 400)
      [] r.kind = "json" /\ r.code /= 0 ->
            SubmitFail("code_error", "submit_error", "Kling error", 400)
      [] r.kind = "json" /\ r.code = 0 ->
            IF ep = "kling_video" /\ r.task_id = Absent
            THEN SubmitFail("accepted", "internal_error", "exception", 500)
            ELSE [act |-> "poll", sub |-> "accepted", out |-> "none",
                  detail |-> "none", status |-> 0, url |-> NONE]

\* the handler after its submit call
AfterSubmit(q, step) ==
    LET q1 == [q EXCEPT !.submits = @ + 1, !.sub = step.sub]
    IN CASE step.act = "fail" -> Fail(q1, step.out, step.detail, step.status)
         [] step.act = "url" -> [q1 EXCEPT !.url = step.url, !.pc = AfterUrl(q.ep)]
         [] step.act = "poll" -> [q1 EXCEPT !.task = TRUE, !.pc = "poll_sleep"]

\* apiframe.py:90-116 and 159-160
generate_apiframe_submit(p, r) ==
    /\ proc[p].kind = "gen"
    /\ proc[p].ep \in {"apiframe", "apiframe_nano"}
    /\ proc[p].pc = "submit"
    /\ proc' = [proc EXCEPT ![p] = AfterSubmit(@, ApiframeSubmitStep(proc[p].ep, r))]
    /\ UNCHANGED <<now, s3_client, store, cache, detached, ops, filled>>

\* kling.py:162-175 and kling.py:298-311
generate_kling_submit(p, r) ==
    /\ proc[p].kind = "gen"
    /\ proc[p].ep \in {"kling_video", "kling_multi"}
    /\ proc[p].pc = "submit"
    /\ proc' = [proc EXCEPT ![p] = AfterSubmit(@, KlingSubmitStep(proc[p].ep, r))]
    /\ UNCHANGED <<now, s3_client, store, cache, detached, ops, filled>>

\* "await asyncio.sleep(3)" (apiframe.py:120), "await asyncio.sleep(5)"
\* (kling.py:184, 321)
poll_sleep(p) ==
    /\ proc[p].kind = "gen"
    /\ proc[p].pc = "poll_sleep"
    /\ proc' = [proc EXCEPT ![p] =
            [@ EXCEPT !.sleeps = @ + 1, !.slept = @ + PollSleep(proc[p].ep),
                      !.pc = "poll_query"]]
    /\ UNCHANGED <<now, s3_client, store, cache, detached, ops, filled>>

\* the loop header after an iteration that did not break: the next
\* iteration, or the code after the loop with no result URL
\* (apiframe.py:119, 159-160; kling.py:183, 208-209; kling.py:320, 341-342)
NextIteration(q) ==
    IF q.attempt + 1 < MaxAttempts(q.ep)
    THEN [q EXCEPT !.attempt = @ + 1, !.pc = "poll_sleep"]
    ELSE Fail([q EXCEPT !.attempt = @ + 1], "timed_out", "timed out",
              TimeoutStatus(q.ep))

\* apiframe.py:121-160
generate_apiframe_poll(p, r) ==
    /\ proc[p].kind = "gen"
    /\ proc[p].ep \in {"apiframe", "apiframe_nano"}
    /\ proc[p].pc = "poll_query"
    /\ LET failed == r.kind = "json" /\ r.status = "failed"
           q == [proc[p] EXCEPT !.polls = @ + 1,
                                !.failedNow = IF failed THEN r.error ELSE "none",
                                !.sawFailed = @ \/ failed,
                                !.lastPoll =
                                    IF r.kind /= "json" THEN r.kind
                                    ELSE IF /\ r.status \in ApiframeDone
                                            /\ ~Truthy(ApiframeExtract(r))
                                    THEN "done_no_url"
                                    ELSE "json",
                                !.shapes =
                                    IF ApiframePollStep(r).act = "break"
                                    THEN <<r.image_urls, r.image_url, r.output>>
                                    ELSE <<>>]
           step == ApiframePollStep(r)
       IN proc' = [proc EXCEPT ![p] =
            IF step.exc = "HTTPException" /\ ~step.caught
            THEN Fail(q, "generation_failed", r.error, 500)
            ELSE IF step.exc = "Exception" /\ ~step.caught
            THEN Fail(q, "internal_error", "exception", 500)
            ELSE IF step.act = "break"
            THEN [q EXCEPT !.url = step.url, !.pc = AfterUrl(q.ep)]
            ELSE NextIteration(q)]
    /\ UNCHANGED <<now, s3_client, store, cache, detached, ops, filled>>

\* kling.py:186-209 and kling.py:323-342
generate_kling_poll(p, r) ==
    /\ proc[p].kind = "gen"
    /\ proc[p].ep \in {"kling_video", "kling_multi"}
    /\ proc[p].pc = "poll_query"
    /\ LET failed == r.kind = "json" /\ r.task_status = "failed"
           q == [proc[p] EXCEPT !.polls = @ + 1,
                                !.failedNow = IF failed THEN r.task_status_msg
                                              ELSE "none",
                                !.sawFailed = @ \/ failed,
                                !.lastPoll =
                                    IF r.kind /= "json" THEN r.kind
                                    ELSE IF /\ r.task_status = "succeed"
                                            /\ \/ r.videos = <<>>
                                               \/ ~Truthy(r.videos[1].url)
                                    THEN "done_no_url"
                                    ELSE "json"]
           step == KlingPollStep(q.ep, r)
       IN proc' = [proc EXCEPT ![p] =
            CASE step.act = "raise" -> Fail(q, step.out, step.detail, step.status)
              [] step.act = "break" ->
                    \* "if not video_url" (kling.py:208)
                    IF Truthy(step.url)
                    THEN [q EXCEPT !.url = step.url, !.pc = AfterUrl(q.ep)]
                    ELSE Fail(q, "timed_out", "timed out", TimeoutStatus(q.ep))
              [] OTHER -> NextIteration(q)]
    /\ UNCHANGED <<now, s3_client, store, cache, detached, ops, filled>>


(***************************************************************************)
(* Media relay: the steps.                                                 *)
(***************************************************************************)
\* run_in_executor(b2_executor, _sync_put_object, data, key, ...) inside
\* asyncio.wait_for (shared.py:99-102, 151-154, 204-207)
StartPut(q, key) ==
    [q EXCEPT !.key = key, !.put = "running", !.puts = @ + 1, !.pc = "put_wait"]

\* a direct call of download_and_upload_video_to_b2 (shared.py:113), which
\* no endpoint of src/ calls
StartRelay(p) ==
    /\ FreeSlot(p)
    /\ ops' = ops + 1
    /\ proc' = [proc EXCEPT ![p] =
            [IdleProc EXCEPT !.kind = "relay",
                             !.ep = "download_and_upload_video_to_b2",
                             !.url = EphUrl("url"), !.pc = "relay_begin"]]
    /\ UNCHANGED <<now, s3_client, store, cache, detached, filled>>

\* shared.py:116 and shared.py:168: the filename is drawn before the download
relay_begin(p, rnd) ==
    /\ proc[p].pc = "relay_begin"
    /\ LET relay == RelayOf(proc[p].ep)
       IN proc' = [proc EXCEPT ![p] =
            [@ EXCEPT !.key = Key(FolderOf(proc[p].ep), now, rnd, Ext(relay)),
                      !.drawn = <<now, rnd>>,
                      !.shapes = <<>>,
                      !.pc = "download"]]
    /\ UNCHANGED <<now, s3_client, store, cache, detached, ops, filled>>

\* shared.py:121-158 and shared.py:173-211: one GET of the download loop,
\* with the backoff sleep that follows a 429
relay_download(p, r) ==
    /\ proc[p].pc = "download"
    /\ RelayOf(proc[p].ep) /= "upload_video_to_b2"
    /\ LET relay == RelayOf(proc[p].ep)
           o == download_and_upload(relay, proc[p].downloads, r, s3_client)
           q == [proc[p] EXCEPT !.downloads = @ + 1, !.backoff = @ + o.wait,
                                !.relayFail = o.fail]
       IN CASE o.act = "retry" ->
                 /\ proc' = [proc EXCEPT ![p] = q]
                 /\ UNCHANGED cache
            [] o.act = "put" ->
                 /\ proc' = [proc EXCEPT ![p] = StartPut([q EXCEPT !.data = "bytes"], q.key)]
                 /\ UNCHANGED cache
            [] o.act = "empty" -> AfterRelay(p, q, EMPTY, FALSE)
            [] o.act = "raise" -> AfterRelay(p, q, EMPTY, TRUE)
    /\ UNCHANGED <<now, s3_client, store, detached, ops, filled>>

\* kling.py:213-219, 242-248 and kling.py:346-351, 370-375: the handler's
\* own GET of the result URL, then upload_video_to_b2 (shared.py:80-102)
generate_kling_download(p, r, rnd) ==
    /\ proc[p].kind = "gen"
    /\ proc[p].ep \in {"kling_video", "kling_multi"}
    /\ proc[p].pc = "download"
    /\ LET q == [proc[p] EXCEPT !.downloads = @ + 1]
       IN CASE r \in {"neterr", "timeout"} ->
                 /\ proc' = [proc EXCEPT ![p] =
                        Fail([q EXCEPT !.relayFail = "dl_" \o r], "internal_error",
                             "exception", 500)]
                 /\ UNCHANGED cache
            [] r \in {"r429", "http_error"} ->
                 \* the relay is not called: "Fallback to original URL"
                 /\ proc' = [proc EXCEPT ![p] =
                        [q EXCEPT !.relayFail = "dl_non200", !.pc = "done",
                                  !.out = "success",
                                  !.resp = [status |-> 200, url |-> q.url,
                                            b2_url |-> q.url]]]
                 /\ UNCHANGED cache
            [] r \in {"ok", "empty"} ->
                 LET o == upload_video_to_b2(IF r = "ok" THEN "bytes" ELSE "empty",
                                             s3_client)
                     q1 == [q EXCEPT !.data = IF r = "ok" THEN "bytes" ELSE "empty",
                                     !.relayFail = o.fail]
                 IN IF o.act = "put"
                    THEN /\ proc' = [proc EXCEPT ![p] =
                                StartPut([q1 EXCEPT !.drawn = <<now, rnd>>],
                                         Key(FolderOf(q.ep), now, rnd, "mp4"))]
                         /\ UNCHANGED cache
                    ELSE AfterRelay(p, q1, EMPTY, FALSE)
    /\ UNCHANGED <<now, s3_client, store, detached, ops, filled>>

\* pollinations.py:352-371, 413-420: the single GET that generates and
\* returns the video, then upload_video_to_b2 (shared.py:80-102)
generate_pollinations_video_get(p, r, rnd) ==
    /\ proc[p].kind = "gen"
    /\ proc[p].ep = "pollinations_video"
    /\ proc[p].pc = "submit"
    /\ LET q == [proc[p] EXCEPT !.submits = @ + 1]
       IN CASE r = "timeout" ->
                 /\ proc' = [proc EXCEPT ![p] =
                        Fail([q EXCEPT !.sub = "timeout"], "timed_out",
                             "Video generation timed out", 504)]
                 /\ UNCHANGED cache
            [] r = "neterr" ->
                 /\ proc' = [proc EXCEPT ![p] =
                        Fail([q EXCEPT !.sub = "neterr"], "internal_error",
                             "exception", 500)]
                 /\ UNCHANGED cache
            [] r \in {"r429", "http_error"} ->
                 /\ proc' = [proc EXCEPT ![p] =
                        Fail([q EXCEPT !.sub = "http_error"], "submit_error",
                             "Video generation failed", 500)]
                 /\ UNCHANGED cache
            [] r \in {"ok", "empty"} ->
                 LET o == upload_video_to_b2(IF r = "ok" THEN "bytes" ELSE "empty",
                                             s3_client)
                     q1 == [q EXCEPT !.sub = "accepted",
                                     !.data = IF r = "ok" THEN "bytes" ELSE "empty",
                                     !.relayFail = o.fail]
                 IN IF o.act = "put"
                    THEN /\ proc' = [proc EXCEPT ![p] =
                                StartPut([q1 EXCEPT !.drawn = <<now, rnd>>],
                                         Key(FolderOf(q.ep), now, rnd, "mp4"))]
                         /\ UNCHANGED cache
                    ELSE AfterRelay(p, q1, EMPTY, FALSE)
    /\ UNCHANGED <<now, s3_client, store, detached, ops, filled>>

\* shared.py:59-77: _sync_put_object in a pool thread, for a caller that is
\* still waiting; the store stamps the object with its own clock
sync_put_object(p, ok, skew) ==
    /\ proc[p].pc = "put_wait"
    /\ proc[p].put = "running"
    /\ proc' = [proc EXCEPT ![p].put = IF ok THEN "stored" ELSE "failed"]
    /\ store' = IF ok THEN StorePut(store, proc[p].key, now + skew) ELSE store
    /\ UNCHANGED <<now, s3_client, cache, detached, ops, filled>>

put_return_WithoutWaiting(p) ==
    /\ proc[p].pc = "put_wait"
    /\ proc[p].put \in {"running", "stored"}
    /\ AfterRelay(p, proc[p], B2Url(proc[p].key), FALSE)
    /\ UNCHANGED <<now, s3_client, store, detached, ops, filled>>

\* asyncio.wait_for returns the thread's result (shared.py:103, 155, 208)
put_return(p) ==
    /\ proc[p].pc = "put_wait"
    /\ proc[p].put \in {"stored", "failed"}
    /\ LET ok == proc[p].put = "stored"
           q == [proc[p] EXCEPT !.relayFail = IF ok THEN "none" ELSE "put_failed"]
       IN AfterRelay(p, q, IF ok THEN B2Url(q.key) ELSE EMPTY, FALSE)
    /\ UNCHANGED <<now, s3_client, store, detached, ops, filled>>

put_timeout_Cancels(p) ==
    /\ proc[p].pc = "put_wait"
    /\ proc[p].put = "running"
    /\ detached' = detached
    /\ LET q == [proc[p] EXCEPT !.put = "abandoned", !.relayFail = "put_timeout"]
       IN AfterRelay(p, q, EMPTY, FALSE)
    /\ UNCHANGED <<now, s3_client, store, ops, filled>>

\* asyncio.TimeoutError (shared.py:104-106, 156-158, 209-211): the caller
\* stops waiting, the thread goes on
put_timeout(p) ==
    /\ proc[p].pc = "put_wait"
    /\ proc[p].put = "running"
    /\ detached' = detached \cup {proc[p].key}
    /\ LET q == [proc[p] EXCEPT !.put = "abandoned", !.relayFail = "put_timeout"]
       IN AfterRelay(p, q, EMPTY, FALSE)
    /\ UNCHANGED <<now, s3_client, store, ops, filled>>

\* shared.py:59-77: _sync_put_object in a pool thread nobody waits for
detached_put(key, ok, skew) ==
    /\ key \in detached
    /\ detached' = detached \ {key}
    /\ store' = IF ok THEN StorePut(store, key, now + skew) ELSE store
    /\ UNCHANGED <<now, s3_client, cache, proc, ops, filled>>

\* the response has been sent: the handler's frame is gone
Return(p) ==
    /\ proc[p].pc = "done"
    /\ proc' = [proc EXCEPT ![p] = IdleProc]
    /\ UNCHANGED <<now, s3_client, store, cache, detached, ops, filled>>

(***************************************************************************)
(* Object store adapter: the listing.                                      *)
(***************************************************************************)
\* the prefix refresh_cache lists for a target (shared.py:294-307)
PrefixOf(target) ==
    CASE target = "video" -> "video"
      [] target = "kling" -> "kling_video"
      [] target = "omnigen" -> "omniGen"
      [] OTHER -> "apiFrame"

\* _sync_list_b2_videos for the video targets, _sync_list_b2_objects else
IsVideoTarget(target) == target \in {"video", "kling"}

\* MaxKeys (shared.py:225, 260)
MaxKeys(target) == IF IsVideoTarget(target) THEN VideoMaxKeys ELSE ImageMaxKeys

\* filename.endswith('.png') / filename.endswith('.mp4') (shared.py:236, 271)
ListedExt(target) == IF IsVideoTarget(target) THEN "mp4" ELSE "png"

\* the objects whose key starts with f"{prefix}/"
Under(st, prefix) == {o \in st : o.key.folder = prefix}

KeyBefore_Descending(a, b) ==
    \/ a.ts > b.ts
    \/ a.ts = b.ts /\ a.rnd > b.rnd

\* the order of list_objects_v2: ascending key, i.e. by the timestamp in the
\* filename (always of the same number of digits), then by the hex suffix
KeyBefore(a, b) ==
    \/ a.ts < b.ts
    \/ a.ts = b.ts /\ a.rnd < b.rnd

RECURSIVE InKeyOrder(_)
InKeyOrder(S) ==
    IF S = {} THEN <<>>
    ELSE LET first == CHOOSE o \in S : \A x \in S \ {o} : KeyBefore(o.key, x.key)
         IN <<first>> \o InKeyOrder(S \ {first})

Contents_AllPages(st, prefix, maxKeys) == InKeyOrder(Under(st, prefix))

\* response.get('Contents', []) of one list_objects_v2 call: the first page
\* and no continuation
Contents(st, prefix, maxKeys) ==
    LET all == InKeyOrder(Under(st, prefix))
    IN SubSeq(all, 1, IF Len(all) < maxKeys THEN Len(all) ELSE maxKeys)

ListedEntry_EndpointUrl(target, o) ==
    LET u == [str |-> "durable", base |-> "B2_ENDPOINT", key |-> o.key]
    IN [url |-> u, b2_url |-> u, key |-> o.key, folder |-> PrefixOf(target),
        time |-> o.lm, type |-> "video"]

\* the entry built from one listed object (shared.py:237-244, 272-280)
ListedEntry(target, o) ==
    IF IsVideoTarget(target)
    THEN [url |-> B2Url(o.key), b2_url |-> B2Url(o.key), key |-> o.key,
          folder |-> PrefixOf(target), time |-> o.lm, type |-> "video"]
    ELSE [url |-> B2Url(o.key), b2_url |-> B2Url(o.key), key |-> o.key,
          folder |-> PrefixOf(target), time |-> o.lm]

RECURSIVE Files(_, _)
Files(target, contents) ==
    IF contents = <<>> THEN <<>>
    ELSE LET rest == Files(target, Tail(contents))
         IN IF Head(contents).key.ext = ListedExt(target)
            THEN <<ListedEntry(target, Head(contents))>> \o rest
            ELSE rest

\* x goes before the first element that is not newer than it
RECURSIVE InsertByTime(_, _)
InsertByTime(x, sorted) ==
    IF sorted = <<>> THEN <<x>>
    ELSE IF Head(sorted).time <= x.time THEN <<x>> \o sorted
    ELSE <<Head(sorted)>> \o InsertByTime(x, Tail(sorted))

SortNewestFirst_NoSort(files) == files

RECURSIVE SortAscending(_)
SortAscending(files) ==
    IF files = <<>> THEN <<>>
    ELSE LET rest == SortAscending(Tail(files))
             x == Head(files)
             n == Cardinality({i \in 1..Len(rest) : rest[i].time < x.time})
         IN SubSeq(rest, 1, n) \o <<x>> \o SubSeq(rest, n + 1, Len(rest))

\* files.sort(key=lambda x: x["time"], reverse=True): stable, newest first
RECURSIVE SortNewestFirst(_)
SortNewestFirst(files) ==
    IF files = <<>> THEN <<>>
    ELSE InsertByTime(Head(files), SortNewestFirst(Tail(files)))

sync_list_b2_DropNewest(target, st, s3, ok) ==
    LET all == SortNewestFirst(Files(target, Contents(st, PrefixOf(target), MaxKeys(target))))
    IN IF s3 /\ ok /\ all /= <<>> THEN Tail(all) ELSE <<>>

sync_list_b2_WithoutClient(target, st, s3, ok) ==
    IF ok
    THEN SortNewestFirst(Files(target, Contents(st, PrefixOf(target), MaxKeys(target))))
    ELSE <<>>

\* shared.py:218-250 and shared.py:253-286; ok: list_objects_v2 answered
sync_list_b2(target, st, s3, ok) ==
    IF s3 /\ ok
    THEN SortNewestFirst(Files(target, Contents(st, PrefixOf(target), MaxKeys(target))))
    ELSE <<>>

(***************************************************************************)
(* Gallery cache: read and refresh.                                        *)
(***************************************************************************)
ReadHit_NoEmptyCheck(c, t) == (t - c.timestamp) < GALLERY_CACHE_TTL

ReadHit_StrictTTL(c, t) ==
    /\ c.data /= <<>>
    /\ (t - c.timestamp) < GALLERY_CACHE_TTL - 1

\* 'if cache["data"] and (now - cache["timestamp"]) < GALLERY_CACHE_TTL'
\* (apiframe.py:35, kling.py:77, pollinations.py:97, 116)
ReadHit(c, t) ==
    /\ c.data /= <<>>
    /\ (t - c.timestamp) < GALLERY_CACHE_TTL

StartRead_Coalesces(p, s) ==
    /\ FreeSlot(p)
    /\ ops' = ops + 1
    /\ proc' = [proc EXCEPT ![p] =
            IF \/ ReadHit(cache[s], now)
               \/ \E q \in Procs : proc[q].ep = s /\ proc[q].pc \in {"list", "assign"}
            THEN [IdleProc EXCEPT !.kind = "read", !.ep = s, !.pc = "done",
                                  !.out = "success", !.result = cache[s].data]
            ELSE [IdleProc EXCEPT !.kind = "read", !.ep = s, !.pc = "list"]]
    /\ UNCHANGED <<now, s3_client, store, cache, detached, filled>>

\* get_apiframe_gallery, get_kling_gallery, get_pollinations_gallery,
\* get_video_gallery: answered from the cache, or on to refresh_cache
StartRead(p, s) ==
    /\ FreeSlot(p)
    /\ ops' = ops + 1
    /\ proc' = [proc EXCEPT ![p] =
            IF ReadHit(cache[s], now)
            THEN [IdleProc EXCEPT !.kind = "read", !.ep = s, !.pc = "done",
                                  !.out = "success", !.result = cache[s].data]
            ELSE [IdleProc EXCEPT !.kind = "read", !.ep = s, !.pc = "list"]]
    /\ UNCHANGED <<now, s3_client, store, cache, detached, filled>>

\* refresh_apiframe_gallery, refresh_kling_gallery, refresh_omnigen_gallery,
\* refresh_video_gallery (POST /gallery/refresh/...)
StartRefresh(p, s) ==
    /\ FreeSlot(p)
    /\ ops' = ops + 1
    /\ proc' = [proc EXCEPT ![p] =
            [IdleProc EXCEPT !.kind = "refresh", !.ep = s, !.pc = "list"]]
    /\ UNCHANGED <<now, s3_client, store, cache, detached, filled>>

\* the list call of refresh_cache in a pool thread (shared.py:295, 301, 307)
list_objects(p, ok) ==
    /\ proc[p].pc = "list"
    /\ proc' = [proc EXCEPT ![p] =
            [@ EXCEPT !.lists = @ + 1,
                      !.files = sync_list_b2(proc[p].ep, store, s3_client, ok),
                      !.listed = s3_client /\ ok,
                      !.snap = Under(store, PrefixOf(proc[p].ep)),
                      !.pc = "assign"]]
    /\ UNCHANGED <<now, s3_client, store, cache, detached, ops, filled>>

refresh_cache_StampsAll(p) ==
    /\ proc[p].pc = "assign"
    /\ cache' = [s \in Sources |->
            IF s = proc[p].ep THEN [data |-> proc[p].files, timestamp |-> now]
            ELSE [cache[s] EXCEPT !.timestamp = now]]
    /\ filled' = [filled EXCEPT ![proc[p].ep] =
            [ok |-> proc[p].listed, snap |-> proc[p].snap]]
    /\ proc' = [proc EXCEPT ![p] =
            [@ EXCEPT !.pc = "done", !.out = "success", !.result = proc[p].files]]
    /\ UNCHANGED <<now, s3_client, store, detached, ops>>

refresh_cache_KeepsOnFailure(p) ==
    /\ proc[p].pc = "assign"
    /\ cache' = IF proc[p].listed
                THEN [cache EXCEPT ![proc[p].ep] =
                        [data |-> proc[p].files, timestamp |-> now]]
                ELSE cache
    /\ filled' = [filled EXCEPT ![proc[p].ep] =
            [ok |-> proc[p].listed, snap |-> proc[p].snap]]
    /\ proc' = [proc EXCEPT ![p] =
            [@ EXCEPT !.pc = "done", !.out = "success", !.result = proc[p].files]]
    /\ UNCHANGED <<now, s3_client, store, detached, ops>>

refresh_cache_KeepsWritten(p) ==
    /\ proc[p].pc = "assign"
    /\ cache' = [cache EXCEPT ![proc[p].ep] =
            [data |-> SelectSeq(@.data, LAMBDA e : e.key = e.url) \o proc[p].files,
             timestamp |-> now]]
    /\ filled' = [filled EXCEPT ![proc[p].ep] =
            [ok |-> proc[p].listed, snap |-> proc[p].snap]]
    /\ proc' = [proc EXCEPT ![p] =
            [@ EXCEPT !.pc = "done", !.out = "success", !.result = proc[p].files]]
    /\ UNCHANGED <<now, s3_client, store, detached, ops>>

\* refresh_cache after the await (shared.py:296-298, 302-304, 310-316)
refresh_cache(p) ==
    /\ proc[p].pc = "assign"
    /\ cache' = [cache EXCEPT ![proc[p].ep] =
            [data |-> proc[p].files, timestamp |-> now]]
    /\ filled' = [filled EXCEPT ![proc[p].ep] =
            [ok |-> proc[p].listed, snap |-> proc[p].snap]]
    /\ proc' = [proc EXCEPT ![p] =
            [@ EXCEPT !.pc = "done", !.out = "success", !.result = proc[p].files]]
    /\ UNCHANGED <<now, s3_client, store, detached, ops>>

\* a handler holds a result URL: the outcome of its submit and poll calls,
\* which touch neither the store nor a cache
StartWithUrl(p, ep) ==
    /\ FreeSlot(p)
    /\ ops' = ops + 1
    /\ proc' = [proc EXCEPT ![p] =
            [IdleProc EXCEPT !.kind = "gen", !.ep = ep, !.sub = "accepted",
                             !.url = EphUrl("result"),
                             !.pc = IF ep = "pollinations_video" THEN "submit"
                                    ELSE AfterUrl(ep)]]
    /\ UNCHANGED <<now, s3_client, store, cache, detached, filled>>

\* time passes
Tick(d) ==
    /\ now + d <= StartNow + MaxElapsed
    /\ now' = now + d
    /\ UNCHANGED <<s3_client, store, cache, proc, detached, ops, filled>>

(***************************************************************************)
(* The payload of a Kling single-video request.  A model name is the       *)
(* sequence of its characters.                                             *)
(***************************************************************************)
\* s.startswith(prefix)
StartsWith(s, prefix) ==
    /\ Len(s) >= Len(prefix)
    /\ SubSeq(s, 1, Len(prefix)) = prefix

\* sub in s
Contains(s, sub) ==
    \E i \in 0..(Len(s) - Len(sub)) : SubSeq(s, i + 1, i + Len(sub)) = sub

\* the model names of KlingVideoRequest (kling.py:47-48), and names outside
\* that list, which the handler accepts as well
ModelNames ==
    {<<"k", "l", "i", "n", "g", "-", "v", "1">>,
     <<"k", "l", "i", "n", "g", "-", "v", "1", "-", "5">>,
     <<"k", "l", "i", "n", "g", "-", "v", "1", "-", "6">>,
     <<"k", "l", "i", "n", "g", "-", "v", "2", "-", "m", "a", "s", "t", "e", "r">>,
     <<"k", "l", "i", "n", "g", "-", "v", "2", "-", "1">>,
     <<"k", "l", "i", "n", "g", "-", "v", "2", "-", "1", "-", "m", "a", "s", "t", "e", "r">>,
     <<"k", "l", "i", "n", "g", "-", "v", "2", "-", "5", "-", "t", "u", "r", "b", "o">>,
     <<"k", "l", "i", "n", "g", "-", "v", "2", "-", "6">>,
     <<"k", "l", "i", "n", "g", "-", "v", "2", "-", "6", "0">>,
     <<"k", "l", "i", "n", "g", "-", "v", "3">>,
     <<"v", "2", "-", "5">>,
     <<"m", "a", "s", "t", "e", "r">>}

\* the bodies of POST /generate/kling/video (kling.py:45-54); cfg_scale is a
\* float, in tenths here, and never None
KlingVideoRequests ==
    [model : ModelNames, mode : {"std", "pro"},
     image_url : {NONE, EphUrl("image")},
     negative_prompt : {NONE, EMPTY, [str |-> "text"]},
     cfg_scale : {0, 5}]

KlingPayload_SoundForV2(request) ==
    LET is_v2 == StartsWith(request.model, <<"k", "l", "i", "n", "g", "-", "v", "2">>)
        is_master == Contains(request.model, <<"m", "a", "s", "t", "e", "r">>)
    IN  [model_name |-> request.model,
         mode |-> IF is_master THEN "master" ELSE request.mode,
         image |-> IF Truthy(request.image_url) THEN JStr(request.image_url)
                   ELSE Absent,
         aspect_ratio |-> IF Truthy(request.image_url) THEN Absent
                          ELSE JStr([str |-> "16:9"]),
         cfg_scale |-> IF ~is_v2 THEN [t |-> "num", v |-> request.cfg_scale]
                       ELSE Absent,
         negative_prompt |->
            IF Truthy(request.negative_prompt)
               /\ ~Contains(request.model, <<"v", "2", "-", "5">>)
            THEN JStr(request.negative_prompt) ELSE Absent,
         sound |-> IF is_v2 THEN JStr([str |-> "off"]) ELSE Absent]

\* kling.py:119-156: the payload of the submit call
KlingPayload(request) ==
    LET is_v2 == StartsWith(request.model, <<"k", "l", "i", "n", "g", "-", "v", "2">>)
        is_master == Contains(request.model, <<"m", "a", "s", "t", "e", "r">>)
        is_v26 == request.model = <<"k", "l", "i", "n", "g", "-", "v", "2", "-", "6">>
        effective_mode == IF is_master THEN "master" ELSE request.mode
    IN  [model_name |-> request.model,
         mode |-> effective_mode,
         image |-> IF Truthy(request.image_url) THEN JStr(request.image_url)
                   ELSE Absent,
         aspect_ratio |-> IF Truthy(request.image_url) THEN Absent
                          ELSE JStr([str |-> "16:9"]),
         cfg_scale |-> IF ~is_v2 THEN [t |-> "num", v |-> request.cfg_scale]
                       ELSE Absent,
         negative_prompt |->
            IF Truthy(request.negative_prompt)
               /\ ~Contains(request.model, <<"v", "2", "-", "5">>)
            THEN JStr(request.negative_prompt) ELSE Absent,
         sound |-> IF is_v26 THEN JStr([str |-> "off"]) ELSE Absent]

\* POST /generate/kling/video with the keys configured (kling.py:93-158):
\* the handler up to its submit call
StartKlingVideo(p, request) ==
    /\ FreeSlot(p)
    /\ ops' = ops + 1
    /\ proc' = [proc EXCEPT ![p] =
            [IdleProc EXCEPT !.kind = "gen", !.ep = "kling_video",
                             !.request = request,
                             !.payload = KlingPayload(request),
                             !.pc = "submit"]]
    /\ UNCHANGED <<now, s3_client, store, cache, detached, filled>>

\* one Kling single-video request, from its body to the answer to its
\* submit call
NextPayload ==
    \/ \E request \in KlingVideoRequests : ops = 0 /\ StartKlingVideo(1, request)
    \/ \E r \in KlingSubmitResponses : generate_kling_submit(1, r)

SpecPayload == Init /\ [][NextPayload]_vars

(***************************************************************************)
(* One generation request or one direct relay call, from its arrival to    *)
(* its response, the clock standing still.                                 *)
(***************************************************************************)
NextReq ==
    \/ \E ep \in Endpoints, c \in BOOLEAN : ops = 0 /\ StartGen(1, ep, c)
    \/ ops = 0 /\ StartRelay(1)
    \/ \E r \in ApiframeSubmitResponses : generate_apiframe_submit(1, r)
    \/ \E r \in KlingSubmitResponses : generate_kling_submit(1, r)
    \/ poll_sleep(1)
    \/ \E r \in ApiframePollResponses : generate_apiframe_poll(1, r)
    \/ \E r \in KlingPollResponses : generate_kling_poll(1, r)
    \/ \E rnd \in 0..(NumRand - 1) : relay_begin(1, rnd)
    \/ \E r \in DownloadResponses : relay_download(1, r)
    \/ \E r \in DownloadResponses, rnd \in 0..(NumRand - 1) :
            generate_kling_download(1, r, rnd)
    \/ \E r \in DownloadResponses, rnd \in 0..(NumRand - 1) :
            generate_pollinations_video_get(1, r, rnd)
    \/ \E ok \in BOOLEAN, skew \in 0..MaxSkew : sync_put_object(1, ok, skew)
    \/ put_return(1)
    \/ put_timeout(1)
    \/ \E k \in detached, ok \in BOOLEAN, skew \in 0..MaxSkew :
            detached_put(k, ok, skew)

SpecReq == Init /\ [][NextReq]_vars

(***************************************************************************)
(* The running service: handlers interleave at their suspension points,    *)
(* pool threads run beside them, time passes.                              *)
(***************************************************************************)
SpecEndpoints == {"apiframe", "kling_video", "pollinations_video"}

\* the media GET here either delivers the bytes or fails; SpecReq covers
\* every kind of failure
SpecDownloads == {"ok", "http_error"}

Next ==
    \/ \E p \in Procs, s \in Sources : ops < MaxOps /\ StartRead(p, s)
    \/ \E p \in Procs, s \in Sources : ops < MaxOps /\ StartRefresh(p, s)
    \/ \E p \in Procs, ep \in SpecEndpoints : ops < MaxOps /\ StartWithUrl(p, ep)
    \/ \E p \in Procs, rnd \in 0..(NumRand - 1) : relay_begin(p, rnd)
    \/ \E p \in Procs, r \in SpecDownloads : relay_download(p, r)
    \/ \E p \in Procs, r \in SpecDownloads, rnd \in 0..(NumRand - 1) :
            generate_kling_download(p, r, rnd)
    \/ \E p \in Procs, r \in SpecDownloads, rnd \in 0..(NumRand - 1) :
            generate_pollinations_video_get(p, r, rnd)
    \/ \E p \in Procs, ok \in BOOLEAN, skew \in 0..MaxSkew :
            sync_put_object(p, ok, skew)
    \/ \E p \in Procs : put_return(p)
    \/ \E p \in Procs : put_timeout(p)
    \/ \E k \in detached, ok \in BOOLEAN, skew \in 0..MaxSkew :
            detached_put(k, ok, skew)
    \/ \E p \in Procs, ok \in BOOLEAN : list_objects(p, ok)
    \/ \E p \in Procs : refresh_cache(p)
    \/ \E p \in Procs : Return(p)
    \/ \E d \in {GALLERY_CACHE_TTL - 1, GALLERY_CACHE_TTL} : Tick(d)

Spec == Init /\ [][Next]_vars

(***************************************************************************)
(* The APIFrame gallery used by one client: refreshes and generations on a *)
(* synchronous model come one after the other in handler 1, and handler 2  *)
(* serves the gallery read that follows a generation, before any other     *)
(* request starts.                                                         *)
(***************************************************************************)
NextSeq ==
    \/ ops < MaxSeqOps /\ proc[2].kind = "idle" /\ StartRefresh(1, "apiframe")
    \/ ops < MaxSeqOps /\ proc[2].kind = "idle" /\ StartWithUrl(1, "apiframe_nano")
    \/ /\ ops < MaxSeqOps
       /\ proc[1].kind = "gen"
       /\ proc[1].pc = "done"
       /\ StartRead(2, "apiframe")
    \/ \E rnd \in 0..(NumRand - 1) : relay_begin(1, rnd)
    \/ \E r \in SpecDownloads : relay_download(1, r)
    \/ \E ok \in BOOLEAN, skew \in 0..MaxSkew : sync_put_object(1, ok, skew)
    \/ put_return(1)
    \/ put_timeout(1)
    \/ \E k \in detached, ok \in BOOLEAN, skew \in 0..MaxSkew :
            detached_put(k, ok, skew)
    \/ \E p \in {1, 2}, ok \in BOOLEAN : list_objects(p, ok)
    \/ \E p \in {1, 2} : refresh_cache(p)
    \/ proc[2].kind = "idle" /\ Return(1)
    \/ \E d \in {GALLERY_CACHE_TTL - 1, GALLERY_CACHE_TTL} : Tick(d)

SpecSeq == Init /\ [][NextSeq]_vars

(***************************************************************************)
(* A video generation in handler 1 beside refreshes of the video gallery,  *)
(* one after the other, in handler 2: the refresh can list the store       *)
(* before the generation's put and assign the cache after its write.       *)
(***************************************************************************)
NextRace ==
    \/ ops < MaxSeqOps /\ StartWithUrl(1, "pollinations_video")
    \/ ops < MaxSeqOps /\ StartRefresh(2, "video")
    \/ \E r \in SpecDownloads, rnd \in 0..(NumRand - 1) :
            generate_pollinations_video_get(1, r, rnd)
    \/ \E ok \in BOOLEAN, skew \in 0..MaxSkew : sync_put_object(1, ok, skew)
    \/ put_return(1)
    \/ put_timeout(1)
    \/ \E k \in detached, ok \in BOOLEAN, skew \in 0..MaxSkew :
            detached_put(k, ok, skew)
    \/ \E ok \in BOOLEAN : list_objects(2, ok)
    \/ refresh_cache(2)
    \/ Return(2)

SpecRace == Init /\ [][NextRace]_vars

(***************************************************************************)
(* Refreshes of the video source that overlap each other and one           *)
(* Pollinations video generation: three operations in two handlers.       *)
(***************************************************************************)
NextOverlap ==
    \/ \E p \in Procs : ops < MaxSeqOps /\ StartRefresh(p, "video")
    \/ \E p \in Procs : ops < MaxSeqOps /\ StartWithUrl(p, "pollinations_video")
    \/ \E p \in Procs, r \in SpecDownloads, rnd \in 0..(NumRand - 1) :
            generate_pollinations_video_get(p, r, rnd)
    \/ \E p \in Procs, ok \in BOOLEAN, skew \in 0..MaxSkew :
            sync_put_object(p, ok, skew)
    \/ \E p \in Procs : put_return(p)
    \/ \E p \in Procs : put_timeout(p)
    \/ \E k \in detached, ok \in BOOLEAN, skew \in 0..MaxSkew :
            detached_put(k, ok, skew)
    \/ \E p \in Procs, ok \in BOOLEAN : list_objects(p, ok)
    \/ \E p \in Procs : refresh_cache(p)
    \/ \E p \in Procs : Return(p)

SpecOverlap == Init /\ [][NextOverlap]_vars


(***************************************************************************)
(* Properties of one request (checked under SpecReq).                      *)
(***************************************************************************)

\* C1: in every provider poll loop, a status query that reports an explicit
\* failed status before any result URL was extracted ends the request at
\* that attempt with a generation-failed error carrying the provider's
\* reason, and the request never ends with the timed-out error.
C1_FailedStatusEndsRequest ==
    \A p \in Procs :
        /\ proc[p].failedNow /= "none" =>
                /\ proc[p].pc = "done"
                /\ proc[p].out = "generation_failed"
                /\ proc[p].detail = proc[p].failedNow
        /\ proc[p].sawFailed => proc[p].out /= "timed_out"

\* C2: a request that entered its poll loop and whose status queries never
\* yield a result URL or an explicit failed status ends with the timed-out
\* error after exactly cap status queries, each preceded by one fixed
\* sleep; no status query is issued after the cap.
C2_TimeoutAfterExactlyCap ==
    \A p \in Procs :
        /\ proc[p].polls <= MaxAttempts(proc[p].ep)
        /\ (/\ proc[p].pc = "done"
            /\ proc[p].task
            /\ ~proc[p].sawFailed
            /\ ~Truthy(proc[p].url))
           => /\ proc[p].out = "timed_out"
              /\ proc[p].polls = MaxAttempts(proc[p].ep)
              /\ proc[p].sleeps = proc[p].polls
              /\ proc[p].slept = proc[p].polls * PollSleep(proc[p].ep)

\* C3: when the submit call returns a non-2xx status or a provider-level
\* error code, the request ends with a submission error after exactly one
\* submit call, zero status queries, no download, no store put and no cache
\* write.
C3_SubmitRejectionFailsFast ==
    \A p \in Procs :
        proc[p].sub \in {"http_error", "code_error"} =>
            /\ proc[p].pc = "done"
            /\ proc[p].out = "submit_error"
            /\ proc[p].submits = 1
            /\ proc[p].polls = 0
            /\ proc[p].sleeps = 0
            /\ proc[p].downloads = 0
            /\ proc[p].puts = 0
            /\ proc[p].writes = 0
            /\ proc[p].put = "none"
            /\ detached = {}
            /\ \A s \in Sources : cache[s].data = <<>>

C3_Witness ==
    \E p \in Procs :
        /\ proc[p].ep = "kling_video"
        /\ proc[p].sub = "code_error"
        /\ proc[p].pc = "done"

\* C4: once a result URL has been obtained, any relay failure yields a
\* successful generation response whose b2_url is the ephemeral provider
\* URL; no error is returned and no cache entry is written.
C4_RelayFailureFallsBack ==
    \A p \in Procs :
        (/\ proc[p].kind = "gen"
         /\ proc[p].pc = "done"
         /\ proc[p].relayFail /= "none")
        => /\ proc[p].out = "success"
           /\ proc[p].resp.b2_url = proc[p].url
           /\ proc[p].writes = 0
           /\ \A s \in Sources : cache[s].data = <<>>

\* C5: the relay operations return, for every outcome of the download and
\* of the put, either a non-empty durable URL or the empty string; no
\* exception escapes them.
C5_RelayNeverRaises ==
    \A p \in Procs :
        proc[p].relayed =>
            /\ ~proc[p].raised
            /\ proc[p].out /= "raised"
            /\ \/ proc[p].b2 = EMPTY
               \/ /\ proc[p].b2 = B2Url(proc[p].key)
                  /\ proc[p].put = "stored"
                  /\ proc[p].relayFail = "none"
            /\ proc[p].relayFail /= "none" => proc[p].b2 = EMPTY

C5_Witness ==
    \E p \in Procs :
        /\ proc[p].relayed
        /\ proc[p].ep = "download_and_upload_video_to_b2"
        /\ proc[p].relayFail = "dl_neterr"
        /\ proc[p].b2 = EMPTY

(***************************************************************************)
(* Properties of the gallery caches (checked under Spec).                  *)
(***************************************************************************)
\* the prefix the documentation gives for each source
StorePrefix(s) ==
    CASE s = "omnigen" -> "omniGen"
      [] s = "apiframe" -> "apiFrame"
      [] s = "video" -> "video"
      [] s = "kling" -> "kling_video"

\* the URLs of a list of entries
Urls(entries) == {entries[i].url : i \in 1..Len(entries)}

\* the entries derivable from the store: one URL per object under the prefix
Derivable(st, s) == {B2Url(o.key) : o \in Under(st, StorePrefix(s))}

\* this step starts a read of s in handler p
StartsRead(p, s) ==
    /\ proc[p].kind = "idle"
    /\ proc'[p].kind = "read"
    /\ proc'[p].ep = s

\* this step is the return of a read of s in handler p
ReadReturns(p, s) ==
    /\ proc[p].pc /= "done"
    /\ proc'[p].kind = "read"
    /\ proc'[p].ep = s
    /\ proc'[p].pc = "done"

C7_FreshReadNeverLists ==
    [][\A p \in Procs, s \in Sources :
        (/\ StartsRead(p, s)
         /\ cache[s].timestamp > 0
         /\ now - cache[s].timestamp < GALLERY_CACHE_TTL)
        => /\ proc'[p].pc = "done"
           /\ proc'[p].lists = 0]_vars

\* C7 (amended): after a refresh of a source completes, every read of that
\* source issued less than TTL later, while the cache holds at least one
\* entry, returns without issuing a list call.
C7_FreshNonEmptyReadNeverLists ==
    [][\A p \in Procs, s \in Sources :
        (/\ StartsRead(p, s)
         /\ cache[s].timestamp > 0
         /\ now - cache[s].timestamp < GALLERY_CACHE_TTL
         /\ cache[s].data /= <<>>)
        => /\ proc'[p].pc = "done"
           /\ proc'[p].lists = 0
           /\ proc'[p].result = cache[s].data]_vars

\* a read was answered from a cache refreshed TTL - 1 seconds before
C7_Witness ==
    \E p \in Procs :
        /\ proc[p].kind = "read"
        /\ proc[p].pc = "done"
        /\ proc[p].lists = 0
        /\ proc[p].result /= <<>>
        /\ now - cache[proc[p].ep].timestamp = GALLERY_CACHE_TTL - 1

\* C8: read(source) returns the cached entries without any list call if and
\* only if entries is non-empty and now - lastRefreshedAt < 300; in every
\* other case it performs exactly one refresh of that source and returns
\* that refresh's result.
C8_ReadHitOrOneRefresh ==
    [][\A p \in Procs, s \in Sources :
        /\ StartsRead(p, s) =>
                IF cache[s].data /= <<>> /\ now - cache[s].timestamp < 300
                THEN /\ proc'[p].pc = "done"
                     /\ proc'[p].lists = 0
                     /\ proc'[p].result = cache[s].data
                     /\ cache' = cache
                ELSE /\ proc'[p].pc = "list"
                     /\ proc'[p].lists = 0
        /\ (proc[p].kind = "read" /\ proc[p].ep = s /\ proc[p].pc = "list"
            /\ proc'[p] /= proc[p])
           => /\ proc'[p].pc = "assign"
              /\ proc'[p].lists = 1
        /\ (proc[p].kind = "read" /\ proc[p].ep = s /\ proc[p].pc = "assign"
            /\ proc'[p] /= proc[p])
           => /\ proc'[p].pc = "done"
              /\ proc'[p].lists = 1
              /\ proc'[p].result = proc[p].files
              /\ cache'[s] = [data |-> proc'[p].result, timestamp |-> now]]_vars

\* a read found entries older than the TTL, refreshed once and returned
\* the refresh's result
C8_Witness ==
    \E p \in Procs :
        /\ proc[p].kind = "read"
        /\ proc[p].pc = "done"
        /\ proc[p].lists = 1
        /\ proc[p].result /= <<>>
        /\ now = StartNow + GALLERY_CACHE_TTL
        /\ cache[proc[p].ep] = [data |-> proc[p].result, timestamp |-> now]
        /\ ops = 2

\* C9: a cache write inserts exactly one entry at index 0 of that source's
\* entries, keeps every previous entry in its previous relative order, and
\* leaves that cache's lastRefreshedAt unchanged.
C9_WritePrepends ==
    [][\A p \in Procs :
        proc'[p].writes = proc[p].writes + 1 =>
            LET s == CacheOf(proc[p].ep)
            IN  /\ Len(cache'[s].data) = Len(cache[s].data) + 1
                /\ Tail(cache'[s].data) = cache[s].data
                /\ Head(cache'[s].data).b2_url = proc'[p].b2
                /\ Truthy(proc'[p].b2)
                /\ cache'[s].timestamp = cache[s].timestamp
                /\ \A o \in Sources \ {s} : cache'[o] = cache[o]]_vars

\* a write went in front of the entries of a refreshed cache
C9_Witness ==
    \E p \in Procs :
        /\ proc[p].kind = "gen"
        /\ proc[p].pc = "done"
        /\ proc[p].writes = 1
        /\ Len(cache[CacheOf(proc[p].ep)].data) >= 2
        /\ Head(cache[CacheOf(proc[p].ep)].data).b2_url = proc[p].b2
        /\ cache[CacheOf(proc[p].ep)].timestamp > 0

\* a sequence of entries in descending last-modified order
Descending(entries) ==
    \A i, j \in 1..Len(entries) : i < j => entries[i].time >= entries[j].time

\* C10: refresh(source) lists the store under that source's own prefix
\* (omnigen: omniGen/, apiframe: apiFrame/, video: video/, kling:
\* kling_video/), replaces that cache's entries wholesale with the listed
\* objects in descending last-modified order, sets lastRefreshedAt to the
\* time the refresh completes, and returns the new entries.
C10_RefreshRelistsOwnPrefix ==
    [][\A p \in Procs :
        /\ (proc[p].pc = "list" /\ proc'[p] /= proc[p]) =>
            LET s == proc[p].ep
                got == proc'[p].files
                under == Under(store, StorePrefix(s))
            IN  /\ proc'[p].pc = "assign"
                /\ \A i \in 1..Len(got) :
                        /\ got[i].folder = StorePrefix(s)
                        /\ \E o \in under :
                                /\ got[i].key = o.key
                                /\ got[i].time = o.lm
                                /\ got[i].url = B2Url(o.key)
                /\ (proc'[p].listed /\ Cardinality(under) <= MaxKeys(s))
                        => Urls(got) = Derivable(store, s)
                /\ Descending(got)
                /\ cache' = cache
        /\ (proc[p].pc = "assign" /\ proc'[p] /= proc[p]) =>
            LET s == proc[p].ep
            IN  /\ proc'[p].pc = "done"
                /\ cache'[s].data = proc[p].files
                /\ cache'[s].timestamp = now
                /\ proc'[p].result = cache'[s].data
                /\ \A o \in Sources \ {s} : cache'[o] = cache[o]]_vars

\* a refresh replaced a cache by two listed objects, the newer first, at a
\* time later than its start
C10_Witness ==
    \E p \in Procs :
        /\ proc[p].kind = "refresh"
        /\ proc[p].pc = "done"
        /\ Len(proc[p].result) = 2
        /\ proc[p].result[1].time > proc[p].result[2].time
        /\ cache[proc[p].ep] = [data |-> proc[p].result, timestamp |-> now]
        /\ now > StartNow

\* C11 (as stated): in every reachable state, under any interleaving of
\* cache writes and refreshes, the entries of each cache are sorted in
\* non-increasing order of their time field.
C11_EntriesSorted ==
    \A s \in Sources : Descending(cache[s].data)

\* C11 (amended): every refresh leaves the entries of its cache sorted in
\* non-increasing order of time, and a write keeps sorted entries sorted
\* provided none of them carries a time later than the clock of the process
\* at the write.
C11_SortedUnlessStoreClockAhead ==
    [][\A s \in Sources :
        /\ (\E p \in Procs : proc[p].pc = "assign" /\ proc[p].ep = s
                             /\ proc'[p] /= proc[p])
           => Descending(cache'[s].data)
        /\ (/\ Descending(cache[s].data)
            /\ \A i \in 1..Len(cache[s].data) : cache[s].data[i].time <= now)
           => Descending(cache'[s].data)]_vars

\* a written entry stands in front of the listed entries of a refreshed
\* cache, all in descending order of time
C11_Witness ==
    /\ Len(cache["video"].data) >= 3
    /\ cache["video"].data[1].key = cache["video"].data[1].url
    /\ cache["video"].data[2].key /= cache["video"].data[2].url
    /\ cache["video"].data[1].time > cache["video"].data[2].time
    /\ cache["video"].data[2].time > cache["video"].data[3].time
    /\ Descending(cache["video"].data)

\* this step is the landing of the put handler p waits for
PutLands(p) ==
    /\ proc[p].put = "running"
    /\ proc'[p].put = "stored"

\* C12 (as stated): any two relay invocations, including two relays of the
\* same source URL started in the same second, store under two distinct
\* storage keys, so no relay ever overwrites an object stored by another
\* relay.
C12_NeverOverwrites ==
    [][\A p \in Procs :
        PutLands(p) => \A o \in store : o.key /= proc[p].key]_vars

\* C12 (amended): two relay invocations store under distinct keys whenever
\* they store to different folders, build their filenames in different
\* seconds or draw different hex suffixes; a put replaces no object whose
\* folder, second or suffix differs from its own.
C12_DistinctUnlessSameName ==
    [][/\ \A p, q \in Procs :
            (/\ p /= q
             /\ proc[p].drawn /= <<>>
             /\ proc[q].drawn /= <<>>
             /\ \/ FolderOf(proc[p].ep) /= FolderOf(proc[q].ep)
                \/ proc[p].drawn /= proc[q].drawn)
            => proc[p].key /= proc[q].key
       /\ \A p \in Procs :
            PutLands(p) =>
                \A o \in store :
                    (\/ o.key.folder /= FolderOf(proc[p].ep)
                     \/ o.key.ts /= proc[p].drawn[1]
                     \/ o.key.rnd /= proc[p].drawn[2])
                    => o \in store']_vars

\* two relays of the same second and folder stored two objects side by side
C12_Witness ==
    \E a, b \in store :
        /\ a.key.folder = b.key.folder
        /\ a.key.ts = b.key.ts
        /\ a.key.ts >= StartNow
        /\ a.key.rnd /= b.key.rnd

(***************************************************************************)
(* Properties of the relay's download loop (checked under SpecReq).        *)
(***************************************************************************)
\* handler p runs a relay operation that downloads with retries
InDownloadLoop(p) ==
    /\ proc[p].kind \in {"gen", "relay"}
    /\ RelayOf(proc[p].ep) \in
            {"download_and_upload_to_b2", "download_and_upload_video_to_b2"}

\* the 429 answers that were followed by a sleep and another GET
Retries(p) ==
    IF proc[p].downloads = 0 THEN 0
    ELSE IF proc[p].pc = "download"
    THEN proc[p].downloads
    ELSE proc[p].downloads - 1

\* 1 + 2 + ... + n
Triangle(n) == (n * (n + 1)) \div 2

\* C13: on an HTTP 429 download response the relay retries at most 3 times
\* for images and at most 3 times for videos, waiting base * (attempt+1)
\* seconds before each retry (base 3 for images, 5 for videos); a 429
\* received once the retries are used up makes the relay return empty
\* without raising.
C13_RetriesBoundedWithLinearBackoff ==
    \A p \in Procs :
        InDownloadLoop(p) =>
            LET image == RelayOf(proc[p].ep) = "download_and_upload_to_b2"
                base == IF image THEN 3 ELSE 5
                sleeps == Retries(p)
            IN  /\ sleeps <= 3
                /\ proc[p].backoff = base * Triangle(sleeps)
                /\ proc[p].relayFail = "dl_429_exhausted" =>
                        /\ proc[p].relayed
                        /\ proc[p].b2 = EMPTY
                        /\ ~proc[p].raised
                        /\ proc[p].out /= "raised"
                        /\ proc[p].puts = 0

\* the video relay used up its retries and returned empty
C13_Witness ==
    \E p \in Procs :
        /\ proc[p].ep = "download_and_upload_video_to_b2"
        /\ proc[p].relayFail = "dl_429_exhausted"
        /\ proc[p].backoff = 15
        /\ proc[p].b2 = EMPTY

\* C14 (as stated): when the image download answers HTTP 429 on three
\* consecutive attempts, the relay fails after 3 download attempts with a
\* total backoff of 3+6+9 seconds and returns failure without raising.
C14_FailsAfterThreeAttempts ==
    \A p \in Procs :
        (/\ proc[p].kind = "gen"
         /\ RelayOf(proc[p].ep) = "download_and_upload_to_b2"
         /\ proc[p].backoff = 3 + 6 + 9)
        => /\ proc[p].downloads = 3
           /\ proc[p].relayed
           /\ proc[p].b2 = EMPTY
           /\ ~proc[p].raised

\* C14 (amended): when the image download answers HTTP 429 on three
\* consecutive attempts the relay has slept 3+6+9 seconds and issues a
\* fourth download attempt; when that one answers 429 as well the relay
\* fails after 4 download attempts, still with a total backoff of 3+6+9
\* seconds, and returns failure without raising.
C14_FailsAfterFourAttempts ==
    \A p \in Procs :
        (/\ proc[p].kind = "gen"
         /\ RelayOf(proc[p].ep) = "download_and_upload_to_b2")
        => /\ (proc[p].backoff = 3 + 6 + 9 /\ ~proc[p].relayed
               /\ proc[p].pc = "download")
                => proc[p].downloads = 3
           /\ proc[p].relayFail = "dl_429_exhausted" =>
                /\ proc[p].downloads = 4
                /\ proc[p].backoff = 3 + 6 + 9
                /\ proc[p].relayed
                /\ proc[p].b2 = EMPTY
                /\ ~proc[p].raised
                /\ proc[p].out = "success"
           /\ proc[p].downloads <= 4

\* the image relay failed on its fourth 429
C14_Witness ==
    \E p \in Procs :
        /\ proc[p].ep = "pollinations"
        /\ proc[p].relayFail = "dl_429_exhausted"
        /\ proc[p].downloads = 4
        /\ proc[p].backoff = 18
        /\ proc[p].pc = "done"

(***************************************************************************)
(* Further properties of one request (checked under SpecReq).              *)
(***************************************************************************)
\* the generation handler p holds the result URL of its provider
ObtainedUrl(p) ==
    /\ proc[p].kind = "gen"
    /\ Truthy(proc[p].url)
    /\ proc[p].ep = "pollinations_video" => proc[p].sub = "accepted"

\* C15: when the store adapter has no credentials, every generation that
\* obtains a result URL returns a successful response in which both url and
\* b2_url equal the ephemeral provider URL, performs no store put and writes
\* no cache entry.
C15_NoCredentialsFallsBack ==
    \A p \in Procs :
        (~s3_client /\ ObtainedUrl(p)) =>
            /\ proc[p].puts = 0
            /\ proc[p].writes = 0
            /\ \A s \in Sources : cache[s].data = <<>>
            /\ proc[p].pc = "done" =>
                    /\ proc[p].out = "success"
                    /\ proc[p].resp.url = proc[p].url
                    /\ proc[p].resp.b2_url = proc[p].url

(***************************************************************************)
(* Properties of a gallery read that follows a generation (checked under   *)
(* SpecSeq).                                                               *)
(***************************************************************************)
\* handler 2 has answered a read issued after the generation of handler 1
\* wrote its cache entry
ReadAfterGen ==
    /\ proc[1].kind = "gen"
    /\ proc[1].pc = "done"
    /\ proc[1].writes = 1
    /\ proc[2].kind = "read"
    /\ proc[2].pc = "done"

\* C16 (as stated): after a generation on a synchronous provider whose
\* relay succeeded, a read of that source issued immediately afterwards
\* returns a sequence whose element at position 0 has url equal to the
\* durable URL of that generation, for every prior state of that cache.
C16_ReadShowsGenerationFirst ==
    ReadAfterGen =>
        /\ proc[2].result /= <<>>
        /\ proc[2].result[1].url = proc[1].b2

\* C16 (amended): the element at position 0 has the durable URL of the
\* generation when the cache was fresh; when it was stale or never
\* refreshed the read relists the store, and the element at position 0 has
\* that URL provided the list call was answered, the objects under the
\* prefix fit in one page and no other object under the prefix has a
\* LastModified equal to or later than that of the generation's object.
C16_ReadShowsGenerationFirstIfListed ==
    (/\ ReadAfterGen
     /\ \/ proc[2].lists = 0
        \/ /\ proc[2].listed
           /\ Cardinality(proc[2].snap) <= ImageMaxKeys
           /\ \E m \in proc[2].snap :
                /\ m.key = proc[1].key
                /\ \A o \in proc[2].snap \ {m} : o.lm < m.lm)
    => /\ proc[2].result /= <<>>
       /\ proc[2].result[1].url = proc[1].b2
       /\ proc[1].b2 = B2Url(proc[1].key)

\* the read was answered from a fresh cache: the written entry stands in
\* front of the entries of the last refresh
C16_Witness ==
    /\ ReadAfterGen
    /\ proc[1].ep = "apiframe_nano"
    /\ proc[2].lists = 0
    /\ Len(proc[2].result) >= 2
    /\ proc[2].result[1].url = proc[1].b2
    /\ cache["apiframe"].timestamp > 0

(***************************************************************************)
(* Properties of the Kling single-video request (checked under SpecReq).   *)
(***************************************************************************)
\* C17: for a Kling single-video request, polling stops at the first status
\* query that reports succeed with a non-empty videos list: for the poll
\* sequence [pending, pending, succeed] exactly three status queries are
\* issued, the result URL is data.task_result.videos[0].url, the object is
\* stored under the kling_video/ folder, and the Kling cache receives at
\* position 0 an entry with source = "kling".
C17_KlingStopsAtFirstSucceed ==
    [][/\ \A r \in KlingPollResponses :
            r.kind = "json" =>
                LET step == KlingPollStep("kling_video", r)
                IN  /\ (r.task_status = "succeed" /\ Len(r.videos) > 0)
                        => /\ step.act = "break"
                           /\ step.url = r.videos[1].url
                    /\ r.task_status \in {"submitted", "processing"}
                        => step.act = "continue"
       /\ \A p \in Procs :
            (proc[p].ep = "kling_video" /\ Truthy(proc[p].url)) =>
                /\ proc[p].url = EphUrl("task_result.videos[0].url")
                /\ proc[p].polls >= 1
                /\ proc[p].sleeps = proc[p].polls
                /\ proc[p].pc \in {"download", "put_wait", "done"}
                /\ proc'[p].ep = "kling_video" => proc'[p].polls = proc[p].polls
                /\ proc[p].put = "stored" =>
                        /\ proc[p].key.folder = "kling_video"
                        /\ \E o \in store : o.key = proc[p].key
                /\ proc[p].writes = 1 =>
                        /\ proc[p].put = "stored"
                        /\ cache["kling"].data /= <<>>
                        /\ cache["kling"].data[1].source = "kling"
                        /\ cache["kling"].data[1].url = B2Url(proc[p].key)
                /\ (proc[p].pc = "done" /\ proc[p].put = "stored") =>
                        proc[p].writes = 1]_vars

\* two pending answers, then succeed: three status queries, the video
\* stored under kling_video/ and its entry in the Kling cache
C17_Witness ==
    \E p \in Procs :
        /\ proc[p].ep = "kling_video"
        /\ proc[p].pc = "done"
        /\ proc[p].polls = 3
        /\ proc[p].sleeps = 3
        /\ proc[p].url = EphUrl("task_result.videos[0].url")
        /\ proc[p].key.folder = "kling_video"
        /\ proc[p].writes = 1
        /\ cache["kling"].data[1].source = "kling"
        /\ proc[p].resp.b2_url = B2Url(proc[p].key)

(***************************************************************************)
(* Properties of a put that outlives its caller (checked under Spec).      *)
(***************************************************************************)
\* this step gives cache s an entry for the key handler p gave up waiting on
EntryAppears(p, s) ==
    /\ proc[p].put = "abandoned"
    /\ proc'[p].put = "abandoned"
    /\ B2Url(proc[p].key) \notin Urls(cache[s].data)
    /\ B2Url(proc[p].key) \in Urls(cache'[s].data)

\* this step is the assignment of a refresh of s that listed key k
RefreshLists(s, k) ==
    \E q \in Procs :
        /\ proc[q].pc = "assign"
        /\ proc[q].ep = s
        /\ proc'[q].pc = "done"
        /\ \E o \in proc[q].snap : o.key = k

\* C18 (as stated): if a store put does not complete within its outer
\* timeout, the relay returns empty and the request writes no cache entry,
\* while the underlying put is not cancelled and may still add the object
\* to the store afterwards; the object stays absent from the cache until a
\* later refresh lists it.
C18_AbsentUntilRefreshLists ==
    [][\A p \in Procs, s \in Sources :
        EntryAppears(p, s) => RefreshLists(s, proc[p].key)]_vars

\* C18 (amended): if a store put does not complete within its outer
\* timeout, the relay returns empty and the request writes no cache entry,
\* while the underlying put is not cancelled and may still add the object
\* to the store afterwards; the store can therefore hold an object that has
\* no cache entry, and an entry for its key enters the cache only when a
\* later refresh lists it or when another request that stored under the
\* same key writes its own entry.
C18_TimedOutPutMayLandUnlisted ==
    [][\A p \in Procs :
        /\ (proc[p].put = "running" /\ proc'[p].put = "abandoned") =>
                /\ proc'[p].b2 = EMPTY
                /\ ~proc'[p].raised
                /\ proc'[p].writes = 0
                /\ proc'[p].pc = "done"
                /\ cache' = cache
                /\ store' = store
                /\ proc[p].key \in detached'
        /\ (proc[p].put = "abandoned" /\ proc[p].key \in detached) =>
                ENABLED detached_put(proc[p].key, TRUE, 0)
        /\ (proc[p].put = "abandoned" /\ proc'[p].put = "abandoned") =>
                proc'[p].writes = 0
        /\ \A s \in Sources :
                EntryAppears(p, s) =>
                    \/ RefreshLists(s, proc[p].key)
                    \/ \E q \in Procs \ {p} :
                            /\ proc'[q].writes = proc[q].writes + 1
                            /\ proc[q].key = proc[p].key]_vars

\* the put landed after the request had answered with the provider URL:
\* the object is in the store and no cache has an entry for it
C18_Witness ==
    \E p \in Procs :
        /\ proc[p].kind = "gen"
        /\ proc[p].put = "abandoned"
        /\ proc[p].pc = "done"
        /\ proc[p].out = "success"
        /\ proc[p].resp.b2_url = proc[p].url
        /\ proc[p].writes = 0
        /\ \E o \in store : o.key = proc[p].key
        /\ proc[p].key \notin detached
        /\ \A s \in Sources : B2Url(proc[p].key) \notin Urls(cache[s].data)

(***************************************************************************)
(* Properties of the poll loops (checked under SpecReq).                   *)
(***************************************************************************)
\* after its last status query the loop of handler p goes on: the next
\* attempt follows, or that query was the last one the cap allows
PollingGoesOn(p) ==
    \/ /\ proc[p].pc \in {"poll_sleep", "poll_query"}
       /\ proc[p].attempt = proc[p].polls
       /\ proc[p].polls < MaxAttempts(proc[p].ep)
    \/ /\ proc[p].pc = "done"
       /\ proc[p].out = "timed_out"
       /\ proc[p].polls = MaxAttempts(proc[p].ep)

\* C19: in every provider poll loop, a status query that reports a done
\* status but from which no result URL can be extracted does not end the
\* loop and does not end the request: the next attempt is issued (up to the
\* cap).
C19_DoneWithoutUrlKeepsPolling ==
    \A p \in Procs :
        proc[p].lastPoll = "done_no_url" => PollingGoesOn(p)

\* C20: in every provider poll loop, a status query that fails transiently
\* (non-2xx response or malformed body) does not end the request: it
\* consumes exactly one of the cap attempts and polling proceeds with the
\* next attempt.
C20_TransientFailureKeepsPolling ==
    \A p \in Procs :
        proc[p].lastPoll \in {"non200", "malformed"} => PollingGoesOn(p)

(***************************************************************************)
(* Properties of the synchronous APIFrame model (checked under SpecReq).   *)
(***************************************************************************)
\* C21: a request to a synchronous provider (APIFrame nano-banana) issues
\* zero status queries in every execution: a submit response with a
\* non-empty image_urls gives the result URL directly, and a submit
\* response without one ends the request with an error immediately.
C21_SyncProviderNeverPolls ==
    [][/\ (\E p \in Procs : proc[p].ep = "apiframe_nano" /\ proc[p].pc = "submit")
          => \A r \in ApiframeSubmitResponses :
            LET step == ApiframeSubmitStep("apiframe_nano", r)
            IN  /\ step.act /= "poll"
                /\ (r.kind = "json" /\ JTruthy(r.image_urls)
                    /\ Truthy(r.image_urls.v[1]))
                   => /\ step.act = "url"
                      /\ step.url = r.image_urls.v[1]
                /\ (r.kind = "json" /\ ~JTruthy(r.image_urls))
                   => /\ step.act = "fail"
                      /\ step.status = 500
                \* a list whose first element is the empty string
                /\ (r.kind = "json" /\ JTruthy(r.image_urls)
                    /\ ~Truthy(r.image_urls.v[1]))
                   => step.act = "fail"
       /\ \A p \in Procs :
            proc'[p].ep = "apiframe_nano" =>
                /\ proc'[p].polls = 0
                /\ proc'[p].sleeps = 0
                /\ ~proc'[p].task
                /\ proc'[p].pc \notin {"poll_sleep", "poll_query"}
                /\ (proc[p].pc = "submit" /\ proc'[p] /= proc[p]) =>
                    /\ proc'[p].submits = 1
                    /\ \/ /\ proc'[p].pc = "relay_begin"
                          /\ proc'[p].url = EphUrl("image_urls[0]")
                       \/ /\ proc'[p].pc = "done"
                          /\ proc'[p].out \in {"submit_error", "timed_out"}
                          /\ proc'[p].resp.status \in {500, 504}
                          /\ proc'[p].downloads = 0
                /\ Truthy(proc'[p].url) => proc'[p].submits = 1]_vars

\* a nano-banana request answered with the URL its submit call returned,
\* stored and cached, without one status query
C21_Witness ==
    \E p \in Procs :
        /\ proc[p].ep = "apiframe_nano"
        /\ proc[p].pc = "done"
        /\ proc[p].out = "success"
        /\ proc[p].polls = 0
        /\ proc[p].sleeps = 0
        /\ proc[p].resp.url = EphUrl("image_urls[0]")
        /\ proc[p].resp.b2_url = B2Url(proc[p].key)
        /\ proc[p].writes = 1

(***************************************************************************)
(* Properties of the APIFrame result extraction (checked under SpecReq).   *)
(***************************************************************************)
\* handler p has just taken its result URL from a done-status answer
JustExtracted(p) ==
    /\ proc[p].ep = "apiframe"
    /\ proc[p].shapes /= <<>>

\* the value of the generic output field: its first element when a list
OutputValue(j) == IF j.t = "list" THEN j.v[1] ELSE j.v

\* C22 (as stated): for a done-status APIFrame poll response, the result
\* URL is chosen by probing the response shapes in the fixed priority order
\* single image (image_url), then list of media (image_urls, first
\* element), then the generic output field; the first non-empty match wins
\* and a later shape is used only when every earlier shape is absent or
\* empty.
C22_SingleImageFirst ==
    \A p \in Procs :
        JustExtracted(p) =>
            LET image_urls == proc[p].shapes[1]
                image_url == proc[p].shapes[2]
                output == proc[p].shapes[3]
            IN  /\ JTruthy(image_url) => proc[p].url = image_url.v
                /\ (~JTruthy(image_url) /\ JTruthy(image_urls))
                        => proc[p].url = image_urls.v[1]
                /\ (~JTruthy(image_url) /\ ~JTruthy(image_urls))
                        => proc[p].url = OutputValue(output)

\* C22 (amended): for a done-status APIFrame poll response, the result URL
\* is chosen by probing the response shapes in the fixed priority order
\* list of media (image_urls, first element), then single image
\* (image_url), then the generic output field (its first element when it is
\* a list); a later shape is used only when every earlier shape is absent
\* or empty.  A non-empty image_urls wins even when its first element is
\* empty: no URL is extracted from that answer, whatever the other fields
\* hold.
C22_MediaListFirst ==
    [][\* whatever a request that enters the fetch loop is answered
       /\ (\E p \in Procs : /\ proc[p].ep = "apiframe"
                             /\ proc[p].pc = "submit"
                             /\ proc'[p].pc = "poll_sleep")
          => \A r \in ApiframePollResponses :
            (r.kind = "json" /\ r.status \in ApiframeDone) =>
                LET got == ApiframeExtract(r)
                IN  /\ JTruthy(r.image_urls) => got = r.image_urls.v[1]
                    /\ (~JTruthy(r.image_urls) /\ JTruthy(r.image_url))
                            => got = r.image_url.v
                    /\ (~JTruthy(r.image_urls) /\ ~JTruthy(r.image_url)
                        /\ JTruthy(r.output))
                            => got = OutputValue(r.output)
                    /\ (~JTruthy(r.image_urls) /\ ~JTruthy(r.image_url)
                        /\ ~JTruthy(r.output))
                            => ~Truthy(got)
       /\ \A p \in Procs :
            (proc'[p].ep = "apiframe" /\ proc'[p].shapes /= <<>>) =>
                LET image_urls == proc'[p].shapes[1]
                    image_url == proc'[p].shapes[2]
                    output == proc'[p].shapes[3]
                IN  /\ Truthy(proc'[p].url)
                    /\ proc[p].pc = "poll_query"
                    /\ proc'[p].pc = "relay_begin"
                    /\ JTruthy(image_urls) => proc'[p].url = image_urls.v[1]
                    /\ (~JTruthy(image_urls) /\ JTruthy(image_url))
                            => proc'[p].url = image_url.v
                    /\ (~JTruthy(image_urls) /\ ~JTruthy(image_url))
                            => /\ JTruthy(output)
                               /\ proc'[p].url = OutputValue(output)]_vars

\* the answer carried both a media list and a single image: the URL taken
\* is the first of the list
C22_Witness ==
    \E p \in Procs :
        /\ JustExtracted(p)
        /\ JTruthy(proc[p].shapes[1])
        /\ JTruthy(proc[p].shapes[2])
        /\ JTruthy(proc[p].shapes[3])
        /\ proc[p].url = EphUrl("image_urls[0]")
        /\ proc[p].polls >= 2

(***************************************************************************)
(* Properties of a refresh that races a write (checked under SpecRace).    *)
(***************************************************************************)
\* this step is the assignment of the refresh q of source s
RefreshAssigns(q, s) ==
    /\ proc[q].pc = "assign"
    /\ proc[q].ep = s
    /\ proc'[q].pc = "done"

\* the generation p has stored its object and written its cache entry
HasWritten(p) ==
    /\ proc[p].kind = "gen"
    /\ proc[p].writes = 1

\* the keys of a set of objects
KeysOf(objects) == {o.key : o \in objects}

\* C23 (as stated): if a refresh whose listing was taken before an object
\* was stored completes after that object's cache write, the written entry
\* is overwritten (absent from the cache); the entry for that object is
\* present again after the next refresh of that source whose listing is
\* taken after the put completed.
C23_OverwrittenThenRelisted ==
    [][\A p, q \in Procs :
        (HasWritten(p) /\ RefreshAssigns(q, CacheOf(proc[p].ep))) =>
            LET s == CacheOf(proc[p].ep)
            IN  /\ proc[p].key \notin KeysOf(proc[q].snap)
                    => B2Url(proc[p].key) \notin Urls(cache'[s].data)
                /\ proc[p].key \in KeysOf(proc[q].snap)
                    => B2Url(proc[p].key) \in Urls(cache'[s].data)]_vars

\* C23 (amended): if a refresh whose listing was taken before an object was
\* stored completes after that object's cache write, the written entry is
\* overwritten (absent from the cache); the entry for that object is
\* present again after the next refresh of that source whose listing is
\* taken after the put completed, provided that list call was answered and
\* the objects under the prefix fit in the one page it returns.
C23_OverwrittenThenRelistedIfListed ==
    [][\A p, q \in Procs :
        (HasWritten(p) /\ RefreshAssigns(q, CacheOf(proc[p].ep))) =>
            LET s == CacheOf(proc[p].ep)
            IN  /\ proc[p].key \notin KeysOf(proc[q].snap)
                    => B2Url(proc[p].key) \notin Urls(cache'[s].data)
                /\ (/\ proc[p].key \in KeysOf(proc[q].snap)
                    /\ proc[q].listed
                    /\ Cardinality(proc[q].snap) <= MaxKeys(s))
                    => /\ B2Url(proc[p].key) \in Urls(cache'[s].data)
                       /\ \E i \in 1..Len(cache'[s].data) :
                            /\ cache'[s].data[i].key = proc[p].key
                            /\ cache'[s].data[i].url = proc[p].b2]_vars

\* the written entry was overwritten by the refresh that had listed before
\* the put, and the next refresh, which has listed the object, is about to
\* assign the cache
C23_Witness ==
    /\ HasWritten(1)
    /\ ops = 3
    /\ cache["video"].timestamp > 0
    /\ B2Url(proc[1].key) \notin Urls(cache["video"].data)
    /\ proc[2].kind = "refresh"
    /\ proc[2].pc = "assign"
    /\ proc[2].listed
    /\ proc[1].key \in KeysOf(proc[2].snap)
    /\ B2Url(proc[1].key) \in Urls(proc[2].files)

(***************************************************************************)
(* Properties of the changes a cache undergoes (checked under Spec).       *)
(***************************************************************************)
\* C24: every change to a cache's entries is either the insertion of
\* exactly one new entry at index 0 or the replacement of the whole
\* sequence by a refresh result; no step removes a single entry or modifies
\* an existing entry in place.
C24_InsertAtHeadOrReplaceAll ==
    [][\A s \in Sources :
        cache'[s] /= cache[s] =>
            /\ \A o \in Sources \ {s} : cache'[o] = cache[o]
            /\ \/ /\ Len(cache'[s].data) = Len(cache[s].data) + 1
                  /\ Tail(cache'[s].data) = cache[s].data
                  /\ cache'[s].timestamp = cache[s].timestamp
                  /\ \E p \in Procs :
                        /\ proc[p].kind = "gen"
                        /\ CacheOf(proc[p].ep) = s
                        /\ proc'[p].writes = proc[p].writes + 1
                        /\ Head(cache'[s].data).url = proc'[p].b2
               \/ \E q \in Procs :
                        /\ RefreshAssigns(q, s)
                        /\ cache'[s].data = proc[q].files
                        /\ proc'[q].result = proc[q].files]_vars

\* a cache that received a written entry was then replaced as a whole by a
\* refresh that lists the written object: each of its entries is a listed
\* one
C24_Witness ==
    \E p, q \in Procs :
        /\ HasWritten(p)
        /\ proc[q].kind = "refresh"
        /\ proc[q].pc = "done"
        /\ proc[q].ep = CacheOf(proc[p].ep)
        /\ cache[proc[q].ep].data = proc[q].result
        /\ \E i \in 1..Len(proc[q].result) : proc[q].result[i].key = proc[p].key
        /\ \A i \in 1..Len(proc[q].result) :
                proc[q].result[i].key /= proc[q].result[i].url

(***************************************************************************)
(* Properties of the size of a cache (checked under Spec).                 *)
(***************************************************************************)
\* the page cap the documentation gives for a source: that of the image
\* listing or that of the video listing
PageCap(s) == IF s \in {"video", "kling"} THEN VideoMaxKeys ELSE ImageMaxKeys

\* the handlers that write an entry to cache s in this step
Writers(s) ==
    {p \in Procs : /\ proc[p].kind = "gen"
                   /\ CacheOf(proc[p].ep) = s
                   /\ proc'[p].writes = proc[p].writes + 1}

\* C25: each refresh issues exactly one list call and follows no
\* continuation, so immediately after a refresh the cache holds at most the
\* page cap of entries (that of the image listing for image sources, that
\* of the video listing for video sources); between two refreshes the
\* length of entries never decreases and grows by exactly one per write.
C25_OnePageThenGrowsByWrites ==
    [][\A s \in Sources :
        /\ \A q \in Procs :
            RefreshAssigns(q, s) =>
                /\ proc[q].lists = 1
                /\ proc'[q].lists = 1
                /\ Len(cache'[s].data) <= PageCap(s)
                /\ Len(cache'[s].data) <= Cardinality(proc[q].snap)
        /\ (~\E q \in Procs : RefreshAssigns(q, s)) =>
                /\ Len(cache'[s].data) >= Len(cache[s].data)
                /\ Len(cache'[s].data) = Len(cache[s].data) + Cardinality(Writers(s))
                /\ Cardinality(Writers(s)) <= 1]_vars

\* a refresh filled the APIFrame cache with one full page although the
\* store holds more objects under the prefix than the page cap
C25_Witness ==
    /\ Cardinality(Under(store, "apiFrame")) > ImageMaxKeys
    /\ filled["apiframe"].ok
    /\ Cardinality(filled["apiframe"].snap) > ImageMaxKeys
    /\ cache["apiframe"].timestamp > 0
    /\ Len(cache["apiframe"].data) = ImageMaxKeys

(***************************************************************************)
(* Properties of the end of a poll loop (checked under SpecReq).           *)
(***************************************************************************)
\* handler p entered a poll loop and is no longer in it
LeftPollLoop(p) ==
    /\ proc[p].task
    /\ proc[p].pc \notin {"poll_sleep", "poll_query"}

\* C26: every request that enters a poll loop leaves it after at most cap
\* status queries (assuming each status query returns or times out) with
\* exactly one of three outcomes: a result URL, a generation-failed error,
\* or a timed-out error; no action outside the request can end the loop
\* earlier.
C26_LoopEndsInOneOfThreeOutcomes ==
    \A p \in Procs :
        /\ proc[p].task => proc[p].polls <= MaxAttempts(proc[p].ep)
        /\ LeftPollLoop(p) =>
            \/ /\ Truthy(proc[p].url)
               /\ proc[p].out \notin {"generation_failed", "timed_out"}
            \/ /\ ~Truthy(proc[p].url)
               /\ proc[p].pc = "done"
               /\ proc[p].out = "generation_failed"
            \/ /\ ~Truthy(proc[p].url)
               /\ proc[p].pc = "done"
               /\ proc[p].out = "timed_out"

(***************************************************************************)
(* Properties of the order of the steps of one request (checked under      *)
(* SpecReq).                                                               *)
(***************************************************************************)
\* handler p is a generation request that is in its poll loop
Polling(p) == proc[p].pc \in {"poll_sleep", "poll_query"}

\* the steps of the generation p up to its put come in the order submit,
\* status queries, download, store put
OrderedUpToPut(p) ==
    /\ proc[p].pc = "submit" =>
            proc[p].submits = 0 /\ proc[p].polls = 0 /\ proc[p].downloads = 0
    /\ proc[p].polls > 0 => proc[p].submits = 1 /\ proc[p].task
    /\ Polling(p) =>
            /\ proc[p].submits = 1
            /\ proc[p].downloads = 0
            /\ proc[p].puts = 0
            /\ ~Truthy(proc[p].url)
    /\ proc[p].downloads > 0 => Truthy(proc[p].url) /\ ~Polling(p)
    /\ proc[p].pc = "download" => proc[p].puts = 0 /\ proc[p].writes = 0
    /\ proc[p].puts > 0 =>
            /\ proc[p].puts = 1
            /\ proc[p].data = "bytes"
            /\ proc[p].downloads >= 1 \/ proc[p].ep = "pollinations_video"
            /\ proc[p].pc \in {"put_wait", "done"}
    /\ proc[p].pc = "put_wait" => proc[p].writes = 0 /\ proc[p].resp = NoResp

\* the cache write of the generation p follows the return of its put with
\* a durable URL, and its response follows both
WriteAfterPutReturned(p) ==
    /\ proc[p].writes > 0 =>
            /\ proc[p].writes = 1
            /\ proc[p].put = "stored"
            /\ proc[p].b2 = B2Url(proc[p].key)
            /\ \E o \in store : o.key = proc[p].key
            /\ proc[p].pc = "done"
    /\ proc[p].resp /= NoResp => proc[p].pc = "done"
    /\ (proc[p].pc = "done" /\ proc[p].put = "stored") => proc[p].writes = 1

\* C27 (as stated): within one generation request the steps happen strictly
\* in the order submit, status queries, download, store put, cache write,
\* response: no step starts before the previous one has finished, and the
\* cache write of a request never happens before that request's put has
\* returned a durable URL.
C27_StepsStrictlyInOrder ==
    \A p \in Procs :
        proc[p].kind = "gen" =>
            /\ OrderedUpToPut(p)
            /\ WriteAfterPutReturned(p)
            /\ proc[p].pc = "done" =>
                    /\ proc[p].put /= "running"
                    /\ proc[p].key \notin detached

\* C27 (amended): within one generation request the steps happen in the
\* order submit, status queries, download, store put, cache write,
\* response; no step starts before the previous one has finished, except
\* that a put which exceeds its outer timeout is abandoned, not finished:
\* the request then skips the cache write and responds while that put may
\* still be running.  The cache write of a request never happens before
\* that request's put has returned a durable URL.
C27_StepsInOrderUnlessPutAbandoned ==
    \A p \in Procs :
        proc[p].kind = "gen" =>
            /\ OrderedUpToPut(p)
            /\ WriteAfterPutReturned(p)
            /\ proc[p].pc = "done" =>
                    /\ proc[p].put /= "running"
                    /\ proc[p].key \in detached =>
                            /\ proc[p].put = "abandoned"
                            /\ proc[p].writes = 0
                            /\ proc[p].b2 = EMPTY
                            /\ proc[p].out = "success"
                            /\ proc[p].resp.b2_url = proc[p].url

\* an APIFrame request went through every step: submit, two status
\* queries, download, put, cache write, response
C27_Witness ==
    \E p \in Procs :
        /\ proc[p].ep = "apiframe"
        /\ proc[p].pc = "done"
        /\ proc[p].submits = 1
        /\ proc[p].polls = 2
        /\ proc[p].downloads = 1
        /\ proc[p].puts = 1
        /\ proc[p].put = "stored"
        /\ proc[p].writes = 1
        /\ proc[p].resp.b2_url = B2Url(proc[p].key)

(***************************************************************************)
(* Properties of the durable URL (checked under Spec).                     *)
(***************************************************************************)
\* the entries of a list that were built from the object of key k
EntriesOfKey(entries, k) ==
    {entries[i] : i \in {j \in 1..Len(entries) : entries[j].key = k}}

\* C28: for every object the relay stores, the durable URL returned by the
\* put (and recorded by the cache write) equals the url that a refresh
\* derives for that object from its key, so a write followed by a refresh
\* that lists the object leaves in the cache an entry with the same url and
\* b2_url as the written one.
C28_RefreshDerivesWrittenUrl ==
    [][\A p \in Procs :
        /\ proc'[p].writes = proc[p].writes + 1 =>
            LET written == Head(cache'[CacheOf(proc[p].ep)].data)
            IN  /\ written.url = proc'[p].b2
                /\ written.b2_url = proc'[p].b2
                /\ proc'[p].resp.b2_url = proc'[p].b2
                /\ \A t \in Sources, o \in store :
                        o.key = proc[p].key =>
                            /\ ListedEntry(t, o).url = written.url
                            /\ ListedEntry(t, o).b2_url = written.b2_url
        /\ \A q \in Procs :
            (/\ HasWritten(p)
             /\ RefreshAssigns(q, CacheOf(proc[p].ep))
             /\ EntriesOfKey(proc[q].files, proc[p].key) /= {})
            => LET s == CacheOf(proc[p].ep)
               IN  /\ EntriesOfKey(cache'[s].data, proc[p].key) /= {}
                   /\ \A e \in EntriesOfKey(cache'[s].data, proc[p].key) :
                        /\ e.url = proc[p].b2
                        /\ e.b2_url = proc[p].resp.b2_url]_vars

\* a refresh listed the object of a Kling generation that had written its
\* entry: the cache holds the listed entry, with the URL the put returned
C28_Witness ==
    \E p, q \in Procs :
        /\ HasWritten(p)
        /\ proc[p].ep = "kling_video"
        /\ proc[q].kind = "refresh"
        /\ proc[q].ep = "kling"
        /\ proc[q].pc = "done"
        /\ cache["kling"].data = proc[q].result
        /\ \E e \in EntriesOfKey(cache["kling"].data, proc[p].key) :
                /\ e.url = proc[p].b2
                /\ e.b2_url = proc[p].resp.b2_url
                /\ e.time >= StartNow

(***************************************************************************)
(* Properties of the response of a generation (checked under SpecReq).     *)
(***************************************************************************)
\* the generation p answered with success after its relay returned a
\* durable URL
SucceededWithRelay(p) ==
    /\ proc[p].kind = "gen"
    /\ proc[p].pc = "done"
    /\ proc[p].out = "success"
    /\ Truthy(proc[p].b2)

\* C29: for every generation endpoint, a successful response whose relay
\* succeeded carries the provider's ephemeral result URL in url and the
\* durable URL in b2_url.
C29_ResponseCarriesBothUrls ==
    \A p \in Procs :
        SucceededWithRelay(p) =>
            /\ proc[p].resp.url = proc[p].url
            /\ proc[p].resp.url.str = "ephemeral"
            /\ proc[p].resp.b2_url = proc[p].b2
            /\ proc[p].resp.b2_url = B2Url(proc[p].key)

(***************************************************************************)
(* Properties of the adapter without credentials (checked under Spec).     *)
(***************************************************************************)
\* C30: when the store adapter has no credentials, no gallery operation
\* raises: refresh(source) and read(source) return the empty sequence for
\* every source, and the put-side operations return the empty string.
C30_DisabledAdapterReturnsEmpty ==
    ~s3_client =>
        /\ \A s \in Sources : cache[s].data = <<>>
        /\ \A p \in Procs :
            /\ proc[p].pc = "assign" => proc[p].files = <<>> /\ ~proc[p].listed
            /\ (proc[p].kind \in {"read", "refresh"} /\ proc[p].pc = "done") =>
                    /\ proc[p].out = "success"
                    /\ proc[p].result = <<>>
                    /\ proc[p].lists = 1
            /\ proc[p].puts = 0
            /\ proc[p].put = "none"
            /\ proc[p].relayed =>
                    /\ proc[p].b2 = EMPTY
                    /\ ~proc[p].raised
                    /\ proc[p].writes = 0
        /\ detached = {}
        /\ store \in {{}, SeedStore}

\* without credentials a generation fell back to the provider URL and a
\* read of the same source returned the empty sequence, although the bucket
\* holds objects under the prefix
C30_Witness ==
    /\ ~s3_client
    /\ \E p, q \in Procs :
        /\ proc[p].kind = "gen"
        /\ proc[p].relayed
        /\ proc[p].b2 = EMPTY
        /\ proc[p].relayFail = "no_s3_client"
        /\ proc[q].kind = "read"
        /\ proc[q].ep = CacheOf(proc[p].ep)
        /\ proc[q].pc = "done"
        /\ proc[q].result = <<>>
        /\ Under(store, PrefixOf(proc[q].ep)) /= {}

(***************************************************************************)
(* Properties of the Kling payload (checked under SpecPayload).            *)
(***************************************************************************)
\* handler p has built the payload of a Kling single-video request
BuiltPayload(p) ==
    /\ proc[p].ep = "kling_video"
    /\ proc[p].request /= <<>>

\* C31: the Kling single-video payload honours the per-model feature gates
\* for every model name: cfg_scale is sent only for models that do not
\* start with kling-v2, negative_prompt only when one is given and the
\* model name does not contain v2-5, sound only for kling-v2-6, and mode is
\* "master" for every model whose name contains "master" regardless of the
\* requested mode.
C31_PayloadHonoursFeatureGates ==
    \A p \in Procs :
        BuiltPayload(p) =>
            LET model == proc[p].request.model
                sent == proc[p].payload
                kling_v2 == <<"k", "l", "i", "n", "g", "-", "v", "2">>
                v2_5 == <<"v", "2", "-", "5">>
                kling_v2_6 == <<"k", "l", "i", "n", "g", "-", "v", "2", "-", "6">>
                master == <<"m", "a", "s", "t", "e", "r">>
            IN  /\ sent.model_name = model
                /\ sent.cfg_scale /= Absent <=> ~StartsWith(model, kling_v2)
                /\ sent.cfg_scale /= Absent =>
                        sent.cfg_scale.v = proc[p].request.cfg_scale
                /\ sent.negative_prompt /= Absent <=>
                        /\ Truthy(proc[p].request.negative_prompt)
                        /\ ~Contains(model, v2_5)
                /\ sent.negative_prompt /= Absent =>
                        sent.negative_prompt.v = proc[p].request.negative_prompt
                /\ sent.sound /= Absent <=> model = kling_v2_6
                /\ Contains(model, master) => sent.mode = "master"
                /\ ~Contains(model, master) => sent.mode = proc[p].request.mode

\* a kling-v2-1-master request asked for mode pro with a negative prompt:
\* the payload has mode master and the negative prompt, no cfg_scale and no
\* sound, and the task was accepted
C31_Witness ==
    \E p \in Procs :
        /\ BuiltPayload(p)
        /\ proc[p].request.model =
                <<"k", "l", "i", "n", "g", "-", "v", "2", "-", "1", "-",
                  "m", "a", "s", "t", "e", "r">>
        /\ proc[p].request.mode = "pro"
        /\ proc[p].payload.mode = "master"
        /\ proc[p].payload.negative_prompt /= Absent
        /\ proc[p].payload.cfg_scale = Absent
        /\ proc[p].payload.sound = Absent
        /\ proc[p].sub = "accepted"

(***************************************************************************)
(* Properties of the four caches together (checked under Spec).            *)
(***************************************************************************)
\* the source a running handler works for: the cache a generation prepends
\* to, the target of a read or refresh
SourceOf(p) ==
    IF proc[p].kind = "gen" THEN CacheOf(proc[p].ep) ELSE proc[p].ep

\* C32: a generation request or a refresh for one source changes only that
\* source's cache: the entries and lastRefreshedAt of the three other
\* caches are left unchanged by it.
C32_OnlyOwnCacheChanges ==
    [][\A s \in Sources :
        cache'[s] /= cache[s] =>
            /\ \E p \in Procs :
                /\ proc'[p] /= proc[p]
                /\ proc[p].kind \in {"gen", "read", "refresh"}
                /\ SourceOf(p) = s
            /\ \A o \in Sources \ {s} :
                /\ cache'[o].data = cache[o].data
                /\ cache'[o].timestamp = cache[o].timestamp]_vars

\* a Kling generation has written its entry and a refresh of the video
\* source has stamped its cache; the two other caches are as constructed
C32_Witness ==
    \E p, q \in Procs :
        /\ HasWritten(p)
        /\ proc[p].ep = "kling_video"
        /\ proc[q].kind = "refresh"
        /\ proc[q].ep = "video"
        /\ proc[q].pc = "done"
        /\ Len(cache["kling"].data) = 1
        /\ cache["kling"].timestamp = 0
        /\ cache["video"].timestamp = now
        /\ cache["video"].data /= <<>>
        /\ cache["omnigen"] = [data |-> <<>>, timestamp |-> 0]
        /\ cache["apiframe"] = [data |-> <<>>, timestamp |-> 0]

\* C33: a generation request writes at most one cache entry, and writes it
\* only when the relay returned a non-empty durable URL; consequently, in
\* every reachable state, no cache entry has an ephemeral provider URL as
\* its url.
C33_OnlyDurableUrlsCached ==
    /\ \A p \in Procs :
        /\ proc[p].writes <= 1
        /\ proc[p].writes = 1 =>
            /\ proc[p].kind = "gen"
            /\ proc[p].relayed
            /\ ~proc[p].raised
            /\ Truthy(proc[p].b2)
            /\ proc[p].b2.str = "durable"
    /\ \A s \in Sources : \A i \in 1..Len(cache[s].data) :
        /\ cache[s].data[i].url.str = "durable"
        /\ \A p \in Procs : cache[s].data[i].url /= proc[p].url

\* one generation has written the durable URL of its object, another has
\* ended with the provider URL after a failed relay and has written
\* nothing: the cache holds the one durable entry
C33_Witness ==
    \E p, q \in Procs :
        /\ HasWritten(p)
        /\ proc[q].kind = "gen"
        /\ proc[q].ep = proc[p].ep
        /\ proc[q].pc = "done"
        /\ proc[q].out = "success"
        /\ ~Truthy(proc[q].b2)
        /\ proc[q].resp.url = proc[q].url
        /\ proc[q].writes = 0
        /\ Urls(cache[CacheOf(proc[p].ep)].data) = {proc[p].b2}

\* C34: under any interleaving of cache writes and refreshes of a source,
\* that source's cache never contains two entries with the same url (in
\* particular when a refresh whose listing already contains a newly stored
\* object is applied before that object's cache write).
C34_NoTwoEntriesWithSameUrl ==
    \A s \in Sources : \A i, j \in 1..Len(cache[s].data) :
        i /= j => cache[s].data[i].url /= cache[s].data[j].url

(***************************************************************************)
(* Properties of the end of a poll loop (checked under SpecReq).           *)
(***************************************************************************)
\* C35: a request ends with the timed-out error only after it has issued
\* exactly cap status queries (20 for APIFrame, 120 for Kling); no request
\* reports a timeout after fewer status queries.
C35_TimeoutOnlyAfterCapQueries ==
    \A p \in Procs :
        (proc[p].pc = "done" /\ proc[p].out = "timed_out") =>
            proc[p].polls = MaxAttempts(proc[p].ep)

(***************************************************************************)
(* Properties of a refresh whose list call fails (checked under Spec).     *)
(***************************************************************************)
\* C36: if the list call of a refresh fails (store error or disabled
\* adapter), the refresh does not raise: it replaces that source's entries
\* with the empty sequence and still stamps lastRefreshedAt, so all
\* previously cached and prepended entries are discarded rather than kept.
C36_FailedListEmptiesCache ==
    [][\A q \in Procs :
        (proc[q].pc = "assign" /\ proc'[q].pc = "done" /\ ~proc[q].listed) =>
            /\ cache'[proc[q].ep].data = <<>>
            /\ cache'[proc[q].ep].timestamp = now
            /\ proc'[q].out = "success"
            /\ proc'[q].result = <<>>]_vars

\* a generation had prepended its entry; a refresh of the same source whose
\* list call failed has then emptied and stamped the cache, although the
\* object is in the store
C36_Witness ==
    \E p, q \in Procs :
        /\ HasWritten(p)
        /\ proc[q].kind = "refresh"
        /\ proc[q].ep = CacheOf(proc[p].ep)
        /\ proc[q].pc = "done"
        /\ proc[q].lists = 1
        /\ ~proc[q].listed
        /\ proc[q].out = "success"
        /\ cache[proc[q].ep] = [data |-> <<>>, timestamp |-> now]
        /\ proc[p].key \in KeysOf(store)

(***************************************************************************)
(* Properties of overlapping refreshes (checked under SpecOverlap).        *)
(***************************************************************************)
\* the refresh q listed the store after the refresh p did: objects are
\* never deleted, so the later listing saw every key of the earlier one and
\* one more
ListedLater(q, p) ==
    /\ proc[p].listed
    /\ proc[q].listed
    /\ KeysOf(proc[p].snap) \subseteq KeysOf(proc[q].snap)
    /\ KeysOf(proc[p].snap) /= KeysOf(proc[q].snap)

\* C37: when two refreshes of the same source overlap, then once both have
\* completed the cache holds the listing that was taken later (the newer
\* snapshot of the store), whatever the order in which the two refreshes
\* complete.
C37_LaterListingWins ==
    [][\A p, q \in Procs :
        (/\ p /= q
         /\ proc[q].kind = "refresh"
         /\ proc[q].pc = "done"
         /\ RefreshAssigns(p, proc[q].ep)
         /\ ListedLater(q, p))
        => cache'[proc[q].ep].data = proc[q].files]_vars

(***************************************************************************)
(* Properties of overlapping reads (checked under Spec).                   *)
(***************************************************************************)
\* C38: a read that finds its cache empty or stale always starts its own
\* list call, also when a refresh of the same source is already in flight:
\* refreshes are not coalesced, so k overlapping stale reads of one source
\* issue k list calls.
C38_StaleReadListsItself ==
    [][\A p \in Procs :
        /\ \A s \in Sources :
            (StartsRead(p, s) /\ ~ReadHit(cache[s], now)) =>
                /\ proc'[p].pc = "list"
                /\ proc'[p].lists = 0
        /\ (proc[p].kind = "read" /\ proc[p].pc = "list" /\ proc'[p] /= proc[p]) =>
                /\ proc'[p].pc = "assign"
                /\ proc'[p].lists = 1
        /\ (proc[p].kind = "read" /\ proc[p].pc = "assign" /\ proc'[p] /= proc[p]) =>
                /\ proc'[p].pc = "done"
                /\ proc'[p].lists = 1]_vars

\* two reads of the video source found the cache empty while the other was
\* in flight: each has issued its own list call, and neither has assigned
\* the cache yet
C38_Witness ==
    /\ \A p \in Procs :
        /\ proc[p].kind = "read"
        /\ proc[p].ep = "video"
        /\ proc[p].pc = "assign"
        /\ proc[p].lists = 1
    /\ cache["video"] = [data |-> <<>>, timestamp |-> 0]

(***************************************************************************)
(* Properties of the keys the relay stores under (checked under SpecReq).  *)
(***************************************************************************)
\* the keys of the entries of a listing
ListedKeys(files) == {files[i].key : i \in 1..Len(files)}

\* C39: every object the relay stores on behalf of a source has a key under
\* the prefix and with the extension that the refresh of that same source
\* lists (.png under omniGen/ or apiFrame/, .mp4 under video/ or
\* kling_video/), and under no other source's prefix, so every stored
\* object is listable by its own source's refresh and by no other.
C39_StoredUnderOwnListedPrefix ==
    \A p \in Procs :
        (proc[p].kind = "gen" /\ proc[p].put = "stored") =>
            LET s == CacheOf(proc[p].ep)
                k == proc[p].key
                mine == {o \in store : o.key = k}
            IN  /\ mine /= {}
                /\ k.folder = PrefixOf(s)
                /\ k.ext = ListedExt(s)
                /\ k.folder \in {"omniGen", "apiFrame"} => k.ext = "png"
                /\ k.folder \in {"video", "kling_video"} => k.ext = "mp4"
                /\ ListedKeys(sync_list_b2(s, mine, TRUE, TRUE)) = {k}
                /\ \A o \in Sources \ {s} :
                    /\ k.folder /= PrefixOf(o)
                    /\ sync_list_b2(o, mine, TRUE, TRUE) = <<>>

\* a Kling multi-image generation has stored its video under kling_video/
\* and written its cache entry
C39_Witness ==
    \E p \in Procs :
        /\ HasWritten(p)
        /\ proc[p].ep = "kling_multi"
        /\ proc[p].put = "stored"
        /\ proc[p].key.folder = "kling_video"
        /\ proc[p].key.ext = "mp4"
        /\ proc[p].key \in KeysOf(store)

(***************************************************************************)
(* Properties of a refresh of an overfull prefix (checked under Spec).     *)
(***************************************************************************)
\* C40: when the store holds more objects under a source's prefix than the
\* page cap and lists keys in ascending key order, a refresh keeps only the
\* first page: an object stored most recently (largest timestamp in its
\* key) is absent from the refreshed cache although its cache write had
\* placed it at index 0.
C40_NewestBeyondFirstPageDropped ==
    [][\A p, q \in Procs :
        (/\ HasWritten(p)
         /\ RefreshAssigns(q, CacheOf(proc[p].ep))
         /\ proc[q].listed
         /\ Cardinality(proc[q].snap) > PageCap(proc[q].ep)
         /\ proc[p].key \in KeysOf(proc[q].snap)
         /\ \A o \in proc[q].snap :
                o.key /= proc[p].key => o.key.ts < proc[p].key.ts
         /\ cache[proc[q].ep].data /= <<>>
         /\ Head(cache[proc[q].ep].data).url = proc[p].b2)
        => /\ B2Url(proc[p].key) \notin Urls(cache'[proc[q].ep].data)
           /\ Len(cache'[proc[q].ep].data) <= PageCap(proc[q].ep)
           /\ \A i \in 1..Len(cache'[proc[q].ep].data) :
                cache'[proc[q].ep].data[i].key.ts < proc[p].key.ts]_vars

\* the prefix held a full page before the generation stored its object; the
\* refresh that listed afterwards has replaced the cache by the first page,
\* without the written object
C40_Witness ==
    \E p, q \in Procs :
        /\ HasWritten(p)
        /\ proc[q].kind = "refresh"
        /\ proc[q].ep = CacheOf(proc[p].ep)
        /\ proc[q].pc = "done"
        /\ proc[q].listed
        /\ proc[p].key \in KeysOf(proc[q].snap)
        /\ Cardinality(proc[q].snap) = PageCap(proc[q].ep) + 1
        /\ cache[proc[q].ep].data = proc[q].result
        /\ Len(cache[proc[q].ep].data) = PageCap(proc[q].ep)
        /\ B2Url(proc[p].key) \notin Urls(cache[proc[q].ep].data)

====
